---------------------------- MODULE Spec2Model ----------------------------
(***************************************************************************)
(* Query normalization and safe-execution pipeline of the OCI Logging      *)
(* Analytics MCP server: QueryValidator (query_validator.py), LoganClient  *)
(* (logan_client.py), the execute_logan_query tool (fastmcp_server.py)     *)
(* and the search_logs tool (main.py, skills/log_analysis.py,              *)
(* skills/adapters.py).                                                    *)
(*                                                                         *)
(* A Python str is modelled as a sequence of one-character strings, so     *)
(* that substring tests, find, replace, slicing and strip are computed     *)
(* as the code computes them.  Indices handed around by the code (the      *)
(* results of str.find) are kept 0-based, as in Python.                    *)
(***************************************************************************)
EXTENDS Integers, Sequences, FiniteSets, TLC

(***************************************************************************)
(* Python str primitives                                                   *)
(***************************************************************************)

\* name = v, followed by the statements Body that read name: v is evaluated once
Bind(v, Body(_)) == CHOOSE r \in {Body(name) : name \in {v}} : TRUE

\* s[:n]
Prefix(s, n) == SubSeq(s, 1, n)

\* s[n:]
Suffix(s, n) == SubSeq(s, n + 1, Len(s))

\* s.startswith(p)
StartsWith(s, p) == Len(p) <= Len(s) /\ SubSeq(s, 1, Len(p)) = p

\* p occurs in s at 0-based offset i
OccursAt(s, p, i) == i >= 0 /\ i + Len(p) <= Len(s) /\ SubSeq(s, i + 1, i + Len(p)) = p

\* least element of a non-empty set of integers
Min(S) == CHOOSE x \in S : \A y \in S : x <= y

\* greatest element of a non-empty set of integers
Max(S) == CHOOSE x \in S : \A y \in S : y <= x

\* s.find(p, start): 0-based offset of the first occurrence at or after start, -1 if none
FindFrom(s, p, start) ==
    LET at == {i \in start..(Len(s) - Len(p)) : OccursAt(s, p, i)} IN
    IF at = {} THEN -1 ELSE Min(at)

\* s.find(p)
PyFind(s, p) == FindFrom(s, p, 0)

\* p in s
Contains(s, p) == \E i \in 0..(Len(s) - Len(p)) : OccursAt(s, p, i)

RECURSIVE Replace(_, _, _)
\* s.replace(old, new): every non-overlapping occurrence, left to right
Replace(s, old, new) ==
    IF ~Contains(s, old) THEN s
    ELSE LET i == PyFind(s, old) IN
         Prefix(s, i) \o new \o Replace(Suffix(s, i + Len(old)), old, new)

RECURSIVE CountOcc(_, _)
\* s.count(p): number of non-overlapping occurrences
CountOcc(s, p) ==
    IF ~Contains(s, p) THEN 0
    ELSE 1 + CountOcc(Suffix(s, PyFind(s, p) + Len(p)), p)

SpaceChars == {" ", "\t", "\n", "\r"}

IsSpace(c) == c \in SpaceChars

IsDigit(c) == c \in {"0", "1", "2", "3", "4", "5", "6", "7", "8", "9"}

\* s.strip()
Strip(s) ==
    LET kept == {i \in 1..Len(s) : ~IsSpace(s[i])} IN
    IF kept = {} THEN <<>> ELSE SubSeq(s, Min(kept), Max(kept))

UpperToLower ==
    [A |-> "a", B |-> "b", C |-> "c", D |-> "d", E |-> "e", F |-> "f", G |-> "g",
     H |-> "h", I |-> "i", J |-> "j", K |-> "k", L |-> "l", M |-> "m", N |-> "n",
     O |-> "o", P |-> "p", Q |-> "q", R |-> "r", S |-> "s", T |-> "t", U |-> "u",
     V |-> "v", W |-> "w", X |-> "x", Y |-> "y", Z |-> "z"]

LowerChar(c) == IF c \in DOMAIN UpperToLower THEN UpperToLower[c] ELSE c

\* the one code point whose lowercase form is two code points long: LATIN CAPITAL LETTER I
\* WITH DOT ABOVE becomes "i" followed by COMBINING DOT ABOVE
DottedCapitalI == "U+0130"

CombiningDotAbove == "U+0307"

\* s.lower()
Lower(s) ==
    IF \A i \in 1..Len(s) : s[i] # DottedCapitalI
    THEN SubSeq([i \in 1..Len(s) |-> LowerChar(s[i])], 1, Len(s))
    ELSE LET before(i) == Cardinality({j \in 1..(i - 1) : s[j] = DottedCapitalI})
             total == Len(s) + before(Len(s) + 1)
             source(k) == CHOOSE i \in 1..Len(s) :
                              /\ i + before(i) <= k
                              /\ k <= i + before(i) + (IF s[i] = DottedCapitalI THEN 1 ELSE 0)
         IN  [k \in 1..total |->
                 IF s[source(k)] # DottedCapitalI THEN LowerChar(s[source(k)])
                 ELSE IF k = source(k) + before(source(k)) THEN "i"
                 ELSE CombiningDotAbove]

DigitChars == <<"0", "1", "2", "3", "4", "5", "6", "7", "8", "9">>

RECURSIVE IntToStr(_)
\* str(n) for n >= 0, as rendered inside an f-string
IntToStr(n) == IF n < 10 THEN <<DigitChars[n + 1]>> ELSE IntToStr(n \div 10) \o <<DigitChars[(n % 10) + 1]>>

(***************************************************************************)
(* State                                                                   *)
(***************************************************************************)
VARIABLES
    pc,                     \* position of the request: idle, *_wait (a backend call is in flight), done
    surface,                \* the tool called: "execute_logan_query" or "search_logs"
    request_query,          \* the tool's query argument: the caller's query
    request_minutes,        \* the tool's time_range_minutes argument
    request_console_mode,   \* the tool's console_mode argument
    request_bypass,         \* the tool's bypass_all_processing argument
    client_query,           \* the query argument of execute_query / execute_query_like_console
    was_normalized,         \* execute_logan_query's local
    submissions,            \* the backend submissions made so far, in order
    answers,                \* the backend's answers to them, in order
    execResult,             \* what execute_query / execute_query_like_console returned
    execException,          \* str(e) of the exception it raised instead, or "none"
    toolResult,             \* what the tool returned
    toolException,          \* str(e) of the exception that crossed the tool boundary, or "none"
    rewrite_rule,           \* the rewrite function applied on its own, or "none"
    rewrite_input,          \* its query argument
    rewrite_minutes,        \* its time_period_minutes argument
    rewrite_output,         \* what it returned
    rewrite_exception,      \* the class of the exception it raised instead, or "none"
    _client,                \* fastmcp_server._client: the shared LoganClient, or None
    environ,                \* os.environ: LOGAN_REGION and LOGAN_COMPARTMENT_ID
    calls                   \* the execute_logan_query calls in flight: position, overrides, client

requestVars == <<pc, surface, request_query, request_minutes, request_console_mode,
                 request_bypass, client_query, was_normalized, submissions, answers, execResult,
                 execException, toolResult, toolException>>

rewriteVars == <<rewrite_rule, rewrite_input, rewrite_minutes, rewrite_output,
                 rewrite_exception>>

clientVars == <<_client, environ, calls>>

vars == <<pc, surface, request_query, request_minutes, request_console_mode, request_bypass,
          client_query, was_normalized, submissions, answers, execResult, execException,
          toolResult, toolException, rewrite_rule, rewrite_input, rewrite_minutes,
          rewrite_output, rewrite_exception, _client, environ, calls>>

(***************************************************************************)
(* LoganClient: pure query rewriting (logan_client.py)                     *)
(***************************************************************************)

IsQuoteChar(c) == c \in {"'", "\""}

\* a character of the class [^')]
IsCountFieldChar(c) == c \notin {"'", ")"}

\* length of the longest run of [^')] characters of s starting at 0-based offset j
CountFieldRun(s, j) ==
    IF j >= Len(s) THEN 0
    ELSE Min({k \in 0..(Len(s) - j) : k = Len(s) - j \/ ~IsCountFieldChar(s[j + k + 1])})

\* ([^')]+)['\"]?\)  tried at 0-based offset j: the offset just after the match, -1 if none
CountFieldTail(s, j) ==
    LET run == CountFieldRun(s, j)
        k == j + run
    IN  IF run = 0 THEN -1
        ELSE IF OccursAt(s, <<")">>, k) THEN k + 1
        ELSE IF OccursAt(s, <<"'", ")">>, k) THEN k + 2
        ELSE -1

\* count_field_pattern = r"stats count\(['\"]?([^')]+)['\"]?\)" tried at 0-based
\* offset i: the offset just after the match, -1 if none
CountFieldMatchEnd(s, i) ==
    LET lead == <<"s","t","a","t","s"," ","c","o","u","n","t","(">>
        j == i + Len(lead)
    IN  IF ~OccursAt(s, lead, i) THEN -1
        ELSE IF j < Len(s) /\ IsQuoteChar(s[j + 1]) /\ CountFieldTail(s, j + 1) >= 0
             THEN CountFieldTail(s, j + 1)
        ELSE CountFieldTail(s, j)

\* re.search(count_field_pattern, query)
CountFieldSearch(s) == \E i \in 0..Len(s) : CountFieldMatchEnd(s, i) >= 0

RECURSIVE CountFieldSub(_, _)
\* re.sub(count_field_pattern, repl, query): every match, left to right
CountFieldSub(s, repl) ==
    LET starts == {i \in 0..Len(s) : CountFieldMatchEnd(s, i) >= 0} IN
    IF starts = {} THEN s
    ELSE LET i == Min(starts) IN
         Prefix(s, i) \o repl \o CountFieldSub(Suffix(s, CountFieldMatchEnd(s, i)), repl)

\* the lookup removal at the end of _fix_query_syntax
ClientLookupRemoval(query) ==
    IF Contains(query, <<"|"," ","l","o","o","k","u","p">>) /\ ~Contains(query, <<"W","A","F">>) /\ ~Contains(query, <<"S","u","r","i","c","a","t","a">>)
    THEN LET lookup_pos == PyFind(query, <<"|"," ","l","o","o","k","u","p">>) IN
         IF lookup_pos > 0 THEN Strip(Prefix(query, lookup_pos)) ELSE query
    ELSE query

\* the WAF-specific count rewriting of _fix_query_syntax
WafCountFix(query) ==
    IF Contains(query, <<"W","A","F">>) /\ Contains(query, <<"c","o","u","n","t","(","'","H","o","s","t"," ","I","P"," ","A","d","d","r","e","s","s"," ","(","C","l","i","e","n","t",")","'",")">>)
    THEN Replace(query, <<"c","o","u","n","t","(","'","H","o","s","t"," ","I","P"," ","A","d","d","r","e","s","s"," ","(","C","l","i","e","n","t",")","'",")">>, <<"c","o","u","n","t">>)
    ELSE query

\* the general count(field) rewriting of _fix_query_syntax (both branches of the
\* WAF/Suricata test run the same re.sub)
CountFieldFix(query) ==
    IF CountFieldSearch(query) THEN CountFieldSub(query, <<"s","t","a","t","s"," ","c","o","u","n","t">>) ELSE query

\* LoganClient._fix_query_syntax
FixQuerySyntax(query) ==
    Bind(Replace(query, <<"A","c","t","i","o","n"," ","i","n"," ","(","d","r","o","p",","," ","r","e","j","e","c","t",")">>, <<"A","c","t","i","o","n"," ","i","n"," ","(","'","d","r","o","p","'",","," ","'","r","e","j","e","c","t","'",")">>), LAMBDA q1 :
    Bind(Replace(q1, <<"!","="," ","n","u","l","l">>, <<"!","="," ","\"","\"">>), LAMBDA q2 :
    Bind(Replace(q2, <<"i","s"," ","n","o","t"," ","n","u","l","l">>, <<"!","="," ","\"","\"">>), LAMBDA q3 :
    Bind(Replace(q3, <<"s","t","a","t","s"," ","c","o","u","n","t","(","*",")">>, <<"s","t","a","t","s"," ","c","o","u","n","t">>), LAMBDA q4 :
    Bind(WafCountFix(q4), LAMBDA q5 :
    Bind(CountFieldFix(q5), LAMBDA q6 :
    Bind(Replace(q6, <<"'","E","v","e","n","t"," ","I","D","'">>, <<"'","E","v","e","n","t"," ","T","y","p","e","'">>), LAMBDA q7 :
    Bind(Replace(q7, <<"|"," ","t","o","p"," ","1","0"," ","C","o","u","n","t">>, <<"|"," ","s","o","r","t"," ","-","C","o","u","n","t"," ","|"," ","h","e","a","d"," ","1","0">>), LAMBDA q8 :
    ClientLookupRemoval(q8)))))))))

\* LoganClient._has_time_filter
HasTimeFilter(query) ==
    Bind(Lower(query), LAMBDA query_lower :
        /\ Contains(query_lower, <<"w","h","e","r","e">>)
        /\ \/ Contains(query_lower, <<"d","a","t","e","t","i","m","e">>)
           \/ Contains(query_lower, <<"t","i","m","e"," ">>)
           \/ Contains(query_lower, <<"t","i","m","e","s","t","a","m","p">>)
           \/ Contains(query_lower, <<"d","a","t","e","r","e","l","a","t","i","v","e">>)
           \/ Contains(query_lower, <<"t","i","m","e","f","i","l","t","e","r">>))

\* skip_patterns of LoganClient._should_skip_time_filter
skip_patterns ==
    << <<"l","o","o","k","u","p"," ","t","a","b","l","e">>,
       <<"c","o","m",".","o","r","a","c","l","e","c","l","o","u","d",".","l","o","g","g","i","n","g",".","c","u","s","t","o","m">>,
       <<"e","v","a","l"," ","v","o","l"," ","="," ","u","n","i","t">>,
       <<"g","e","o","s","t","a","t","s">>,
       <<"h","i","g","h","l","i","g","h","t","g","r","o","u","p","s">>,
       <<"c","l","a","s","s","i","f","y">>,
       <<"t","i","m","e","s","t","a","t","s">>,
       <<"l","i","n","k"," ","s","p","a","n">>,
       <<"c","o","m","p","a","r","e"," ","t","i","m","e","s","h","i","f","t">>,
       <<"f","i","e","l","d","s"," ","S","u","r","i","c","a","t","a","S","i","g","n","a","t","u","r","e">>,
       <<"R","e","q","u","e","s","t"," ","P","r","o","t","e","c","t","i","o","n"," ","R","u","l","e"," ","I","D","s">> >>

\* LoganClient._should_skip_time_filter
ShouldSkipTimeFilter(query) == \E i \in DOMAIN skip_patterns : Contains(query, skip_patterns[i])

\* a unit selection whose hours threshold is inclusive (<= 1440 for < 1440)
TimeUnitHoursThrough1440(time_period_minutes) ==
    IF time_period_minutes < 60 THEN IntToStr(time_period_minutes) \o <<"m">>
    ELSE IF time_period_minutes <= 1440 THEN IntToStr(time_period_minutes \div 60) \o <<"h">>
    ELSE IntToStr(time_period_minutes \div 1440) \o <<"d">>

\* a unit selection that rounds hours and days up to the next whole unit
TimeUnitRoundedUp(time_period_minutes) ==
    IF time_period_minutes < 60 THEN IntToStr(time_period_minutes) \o <<"m">>
    ELSE IF time_period_minutes < 1440
    THEN IntToStr((time_period_minutes + 59) \div 60) \o <<"h">>
    ELSE IntToStr((time_period_minutes + 1439) \div 1440) \o <<"d">>

\* LoganClient._convert_minutes_to_time_unit
ConvertMinutesToTimeUnit(time_period_minutes) ==
    IF time_period_minutes < 60 THEN IntToStr(time_period_minutes) \o <<"m">>
    ELSE IF time_period_minutes < 1440 THEN IntToStr(time_period_minutes \div 60) \o <<"h">>
    ELSE IntToStr(time_period_minutes \div 1440) \o <<"d">>

\* the unit selection of _add_time_filter_with_field
TimeUnit(time_period_minutes) ==
    IF time_period_minutes < 60 THEN IntToStr(time_period_minutes) \o <<"m">>
    ELSE IF time_period_minutes < 1440 THEN IntToStr(time_period_minutes \div 60) \o <<"h">>
    ELSE IntToStr(time_period_minutes \div 1440) \o <<"d">>

\* time_filter = f"Time > dateRelative({time_unit})"
TimeFilterClause(time_period_minutes) ==
    <<"T","i","m","e"," ",">"," ","d","a","t","e","R","e","l","a","t","i","v","e","(">> \o TimeUnit(time_period_minutes) \o <<")">>

\* " and " in s.lower() or " or " in s.lower()
HasBooleanConditions(s) ==
    Bind(Lower(s), LAMBDA lowered : Contains(lowered, <<" ","a","n","d"," ">>) \/ Contains(lowered, <<" ","o","r"," ">>))

\* an injector that puts the clause into a where stage of its own, after the leading
\* filter expression
AddTimeFilterAsWhereStage(query, time_period_minutes) ==
    IF Contains(query, <<"|">>)
    THEN Strip(Prefix(query, PyFind(query, <<"|">>))) \o <<" ","|"," ","w","h","e","r","e"," ">>
             \o TimeFilterClause(time_period_minutes) \o <<" ">>
             \o Strip(Suffix(query, PyFind(query, <<"|">>)))
    ELSE query \o <<" ","a","n","d"," ">> \o TimeFilterClause(time_period_minutes)

\* LoganClient._add_time_filter_with_field
AddTimeFilterWithField(query, time_period_minutes) ==
    LET time_filter == TimeFilterClause(time_period_minutes) IN
    IF ShouldSkipTimeFilter(query) THEN query
    ELSE IF Strip(query) = <<"*">>
    THEN <<"*"," ","|"," ","w","h","e","r","e"," ">> \o time_filter \o <<" ","|"," ","s","t","a","t","s"," ","c","o","u","n","t"," ","a","s"," ","l","o","g","r","e","c","o","r","d","s"," ","b","y"," ","'","L","o","g"," ","S","o","u","r","c","e","'"," ","|"," ","s","o","r","t"," ","-","l","o","g","r","e","c","o","r","d","s">>
    ELSE IF Contains(query, <<"|">>)
    THEN LET first_pipe_pos == PyFind(query, <<"|">>)
             before_pipe == Strip(Prefix(query, first_pipe_pos))
             after_pipe == Strip(Suffix(query, first_pipe_pos))
         IN  before_pipe \o <<" ","a","n","d"," ">> \o time_filter \o <<" ">> \o after_pipe
    ELSE IF HasBooleanConditions(query)
    THEN query \o <<" ","a","n","d"," ">> \o time_filter
    ELSE IF StartsWith(query, <<"*"," ","|"," ","s","t","a","t","s">>)
    THEN <<"*"," ","|"," ","w","h","e","r","e"," ">> \o time_filter \o <<" ","|"," ">> \o Suffix(query, 4)
    ELSE IF StartsWith(query, <<"*">>)
    THEN <<"*"," ","|"," ","w","h","e","r","e"," ">> \o time_filter \o <<" ","|"," ">> \o Strip(Suffix(query, 1))
    ELSE query \o <<" ","a","n","d"," ">> \o time_filter

\* the sort stripping of _execute_query_fallback
FallbackStripSort(query) ==
    IF Contains(query, <<"|"," ","s","t","a","t","s">>) /\ Contains(query, <<"|"," ","s","o","r","t">>)
    THEN LET sort_pos == PyFind(query, <<"|"," ","s","o","r","t">>) IN
         IF sort_pos > 0 THEN Strip(Prefix(query, sort_pos)) ELSE query
    ELSE query

\* the query a fallback would submit if line 259 handed it the time-filtered query
\* instead of original_query
FallbackQueryFromPrimary(original_query) ==
    Bind(FixQuerySyntax(original_query), LAMBDA fixed :
    Bind(AddTimeFilterWithField(fixed, request_minutes), LAMBDA query :
    FallbackStripSort(query)))

\* the query _execute_query_fallback submits for original_query
FallbackQuery(original_query) ==
    Bind(FixQuerySyntax(original_query), LAMBDA query : FallbackStripSort(query))

\* the != rewriting loop of execute_query_like_console (both branches of
\* bypass_all_processing run the same statements)
IsBangEqValueChar(c) == ~IsSpace(c) /\ c # "|"

\* the characters of the class \w
WordChars ==
    DOMAIN UpperToLower \cup {UpperToLower[k] : k \in DOMAIN UpperToLower}
        \cup {DigitChars[k] : k \in DOMAIN DigitChars} \cup {"_"}

IsWordChar(c) == c \in WordChars

\* length of the longest run of \w characters of s starting at 0-based offset j
WordRun(s, j) ==
    IF j >= Len(s) THEN 0
    ELSE Min({k \in 0..(Len(s) - j) : k = Len(s) - j \/ ~IsWordChar(s[j + k + 1])})

\* length of the longest run of \s characters of s starting at 0-based offset j
SpaceRun(s, j) ==
    IF j >= Len(s) THEN 0
    ELSE Min({k \in 0..(Len(s) - j) : k = Len(s) - j \/ ~IsSpace(s[j + k + 1])})

\* length of the longest run of [^\s|] characters of s starting at 0-based offset j
BangEqValueRun(s, j) ==
    IF j >= Len(s) THEN 0
    ELSE Min({k \in 0..(Len(s) - j) : k = Len(s) - j \/ ~IsBangEqValueChar(s[j + k + 1])})

\* pattern = r"(\w+)\s*!=\s*([^\s|]+)" tried at 0-based offset i
BangEqMatch(s, i) ==
    LET w == WordRun(s, i)
        a == i + w + SpaceRun(s, i + w)
        b == a + 2 + SpaceRun(s, a + 2)
        v == BangEqValueRun(s, b)
    IN  IF w > 0 /\ OccursAt(s, <<"!","=">>, a) /\ v > 0
        THEN [ok |-> TRUE, field |-> SubSeq(s, i + 1, i + w), value |-> SubSeq(s, b + 1, b + v),
              end |-> b + v]
        ELSE [ok |-> FALSE, field |-> <<>>, value |-> <<>>, end |-> i]

RECURSIVE BangEqFindAll(_, _)
\* re.findall(pattern, console_query) from 0-based offset i on: the (field, value) pairs of
\* the non-overlapping matches, left to right
BangEqFindAll(s, i) ==
    IF FindFrom(s, <<"!","=">>, i) < 0 THEN <<>>
    ELSE LET starts == {k \in i..(Len(s) - 1) : BangEqMatch(s, k).ok} IN
         IF starts = {} THEN <<>>
         ELSE LET m == BangEqMatch(s, Min(starts)) IN
              <<[field |-> m.field, value |-> m.value]>> \o BangEqFindAll(s, m.end)

RECURSIVE BangEqRewrite(_, _)
\* for field, value in matches: if value != "null": console_query = console_query.replace(...)
BangEqRewrite(console_query, matches) ==
    IF matches = <<>> THEN console_query
    ELSE LET field == Head(matches).field
             value == Head(matches).value
             old_expr == field \o <<" ","!","="," ">> \o value
             new_expr == field \o <<" ","!","="," ","\"","\"">>
         IN  Bind(IF value # <<"n","u","l","l">> THEN Replace(console_query, old_expr, new_expr)
                  ELSE console_query,
                  LAMBDA replaced : BangEqRewrite(replaced, Tail(matches)))

\* console_query of execute_query_like_console
ConsoleQuery(query) ==
    Bind(Replace(query, <<"!","="," ","n","u","l","l">>, <<"!","="," ","\"","\"">>), LAMBDA q1 :
    Bind(Replace(q1, <<"i","s"," ","n","o","t"," ","n","u","l","l">>, <<"!","="," ","\"","\"">>), LAMBDA console_query :
    Bind(BangEqFindAll(console_query, 0), LAMBDA matches :
    BangEqRewrite(console_query, matches))))


(***************************************************************************)
(* QueryMapper (query_mapper.py)                                           *)
(***************************************************************************)

\* the unit selection of QueryMapper._get_time_filter
MapperTimeUnit(time_period_minutes) ==
    IF time_period_minutes < 60 THEN IntToStr(time_period_minutes) \o <<"m">>
    ELSE IF time_period_minutes < 1440 THEN IntToStr(time_period_minutes \div 60) \o <<"h">>
    ELSE IF time_period_minutes < 43200 THEN IntToStr(time_period_minutes \div 1440) \o <<"d">>
    ELSE IntToStr(time_period_minutes \div 43200) \o <<"m","o","n">>

\* QueryMapper._get_time_filter for time_period_minutes > 0
GetTimeFilter(time_period_minutes) ==
    <<"t","i","m","e","f","i","l","t","e","r","(">> \o MapperTimeUnit(time_period_minutes) \o <<")">>

\* security_queries of QueryMapper.__init__: the "queries" list of every check type
security_queries ==
    [ failed_logins |->
        << <<"*"," ","|"," ","w","h","e","r","e"," ","c","o","n","t","a","i","n","s","(","\"","L","o","g"," ","E","n","t","r","y","\"",","," ","\"","F","a","i","l","e","d"," ","p","a","s","s","w","o","r","d","\"",")"," ","o","r"," ","c","o","n","t","a","i","n","s","(","\"","L","o","g"," ","E","n","t","r","y","\"",","," ","\"","a","u","t","h","e","n","t","i","c","a","t","i","o","n"," ","f","a","i","l","u","r","e","\"",")"," ","o","r"," ","c","o","n","t","a","i","n","s","(","\"","L","o","g"," ","E","n","t","r","y","\"",","," ","\"","I","n","v","a","l","i","d"," ","u","s","e","r","\"",")">>,
           <<"*"," ","|"," ","w","h","e","r","e"," ","'","E","v","e","n","t"," ","N","a","m","e","'"," ","="," ","'","A","u","t","h","e","n","t","i","c","a","t","i","o","n","F","a","i","l","u","r","e","'">>,
           <<"*"," ","|"," ","w","h","e","r","e"," ","c","o","n","t","a","i","n","s","(","\"","M","e","s","s","a","g","e","\"",","," ","\"","l","o","g","i","n"," ","f","a","i","l","e","d","\"",")"," ","o","r"," ","c","o","n","t","a","i","n","s","(","\"","M","e","s","s","a","g","e","\"",","," ","\"","a","u","t","h","e","n","t","i","c","a","t","i","o","n"," ","f","a","i","l","e","d","\"",")">>,
           <<"*"," ","|"," ","s","e","a","r","c","h"," ","\"","f","a","i","l","e","d","\""," ","\"","l","o","g","i","n","\""," ","O","R"," ","\"","a","u","t","h","e","n","t","i","c","a","t","i","o","n","\""," ","\"","f","a","i","l","u","r","e","\"">>,
           <<"*"," ","|"," ","w","h","e","r","e"," ","\"","E","v","e","n","t"," ","N","a","m","e","\""," ","="," ","\"","S","i","g","n","i","n","F","a","i","l","u","r","e","\""," ","o","r"," ","\"","E","v","e","n","t"," ","N","a","m","e","\""," ","="," ","\"","L","o","g","i","n","F","a","i","l","u","r","e","\"">> >>,
      successful_logins |->
        << <<"*"," ","|"," ","w","h","e","r","e"," ","c","o","n","t","a","i","n","s","(","\"","L","o","g"," ","E","n","t","r","y","\"",","," ","\"","A","c","c","e","p","t","e","d"," ","p","a","s","s","w","o","r","d","\"",")"," ","o","r"," ","c","o","n","t","a","i","n","s","(","\"","L","o","g"," ","E","n","t","r","y","\"",","," ","\"","a","u","t","h","e","n","t","i","c","a","t","i","o","n"," ","s","u","c","c","e","s","s","f","u","l","\"",")">>,
           <<"*"," ","|"," ","w","h","e","r","e"," ","'","E","v","e","n","t"," ","N","a","m","e","'"," ","="," ","'","S","i","g","n","i","n","S","u","c","c","e","s","s","'"," ","o","r"," ","'","E","v","e","n","t"," ","N","a","m","e","'"," ","="," ","'","L","o","g","i","n","S","u","c","c","e","s","s","'">>,
           <<"*"," ","|"," ","s","e","a","r","c","h"," ","\"","l","o","g","i","n","\""," ","\"","s","u","c","c","e","s","s","\""," ","O","R"," ","\"","a","u","t","h","e","n","t","i","c","a","t","i","o","n","\""," ","\"","s","u","c","c","e","s","s","\"">> >>,
      privilege_escalation |->
        << <<"*"," ","|"," ","w","h","e","r","e"," ","c","o","n","t","a","i","n","s","(","\"","L","o","g"," ","E","n","t","r","y","\"",","," ","\"","s","u","d","o","\"",")"," ","o","r"," ","c","o","n","t","a","i","n","s","(","\"","L","o","g"," ","E","n","t","r","y","\"",","," ","\"","s","u",":","\"",")">>,
           <<"*"," ","|"," ","w","h","e","r","e"," ","c","o","n","t","a","i","n","s","(","'","E","v","e","n","t"," ","N","a","m","e","'",","," ","'","A","s","s","u","m","e","'",")"," ","o","r"," ","c","o","n","t","a","i","n","s","(","'","E","v","e","n","t"," ","N","a","m","e","'",","," ","'","E","s","c","a","l","a","t","e","'",")">>,
           <<"*"," ","|"," ","s","e","a","r","c","h"," ","\"","s","u","d","o","\""," ","O","R"," ","\"","p","r","i","v","i","l","e","g","e","\""," ","\"","e","s","c","a","l","a","t","i","o","n","\""," ","O","R"," ","\"","a","s","s","u","m","e","\""," ","\"","r","o","l","e","\"">>,
           <<"*"," ","|"," ","w","h","e","r","e"," ","\"","E","v","e","n","t"," ","N","a","m","e","\""," ","="," ","\"","A","s","s","u","m","e","R","o","l","e","\""," ","o","r"," ","\"","E","v","e","n","t"," ","N","a","m","e","\""," ","="," ","\"","E","l","e","v","a","t","e","P","r","i","v","i","l","e","g","e","s","\"">> >>,
      suspicious_network |->
        << <<"*"," ","|"," ","w","h","e","r","e"," ","c","o","n","t","a","i","n","s","(","\"","L","o","g"," ","E","n","t","r","y","\"",","," ","\"","c","o","n","n","e","c","t","i","o","n"," ","r","e","f","u","s","e","d","\"",")"," ","o","r"," ","c","o","n","t","a","i","n","s","(","\"","L","o","g"," ","E","n","t","r","y","\"",","," ","\"","b","l","o","c","k","e","d","\"",")">>,
           <<"*"," ","|"," ","s","e","a","r","c","h"," ","\"","b","l","o","c","k","e","d","\""," ","\"","c","o","n","n","e","c","t","i","o","n","\""," ","O","R"," ","\"","s","u","s","p","i","c","i","o","u","s","\""," ","\"","t","r","a","f","f","i","c","\""," ","O","R"," ","\"","f","i","r","e","w","a","l","l","\""," ","\"","d","e","n","y","\"">>,
           <<"*"," ","|"," ","w","h","e","r","e"," ","\"","A","c","t","i","o","n","\""," ","="," ","\"","B","L","O","C","K","\""," ","o","r"," ","\"","A","c","t","i","o","n","\""," ","="," ","\"","D","E","N","Y","\""," ","o","r"," ","\"","A","c","t","i","o","n","\""," ","="," ","\"","R","E","J","E","C","T","\"">> >>,
      port_scanning |->
        << <<"*"," ","|"," ","s","e","a","r","c","h"," ","\"","p","o","r","t","\""," ","\"","s","c","a","n","\""," ","O","R"," ","\"","n","m","a","p","\""," ","O","R"," ","\"","p","o","r","t","s","c","a","n","\"">>,
           <<"*"," ","|"," ","w","h","e","r","e"," ","c","o","n","t","a","i","n","s","(","\"","L","o","g"," ","E","n","t","r","y","\"",","," ","\"","p","o","r","t"," ","s","c","a","n","\"",")"," ","o","r"," ","c","o","n","t","a","i","n","s","(","\"","M","e","s","s","a","g","e","\"",","," ","\"","s","c","a","n","n","i","n","g","\"",")">> >>,
      audit_changes |->
        << <<"*"," ","|"," ","w","h","e","r","e"," ","c","o","n","t","a","i","n","s","(","'","E","v","e","n","t"," ","N","a","m","e","'",","," ","'","C","r","e","a","t","e","'",")"," ","o","r"," ","c","o","n","t","a","i","n","s","(","'","E","v","e","n","t"," ","N","a","m","e","'",","," ","'","U","p","d","a","t","e","'",")"," ","o","r"," ","c","o","n","t","a","i","n","s","(","'","E","v","e","n","t"," ","N","a","m","e","'",","," ","'","D","e","l","e","t","e","'",")">>,
           <<"*"," ","|"," ","w","h","e","r","e"," ","c","o","n","t","a","i","n","s","(","'","E","v","e","n","t"," ","N","a","m","e","'",","," ","'","T","e","r","m","i","n","a","t","e","'",")"," ","o","r"," ","c","o","n","t","a","i","n","s","(","'","E","v","e","n","t"," ","N","a","m","e","'",","," ","'","L","a","u","n","c","h","'",")">>,
           <<"*"," ","|"," ","s","e","a","r","c","h"," ","\"","c","o","n","f","i","g","u","r","a","t","i","o","n","\""," ","\"","c","h","a","n","g","e","\""," ","O","R"," ","\"","p","o","l","i","c","y","\""," ","\"","u","p","d","a","t","e","\""," ","O","R"," ","\"","u","s","e","r","\""," ","\"","c","r","e","a","t","e","\"">> >>,
      user_management |->
        << <<"*"," ","|"," ","w","h","e","r","e"," ","c","o","n","t","a","i","n","s","(","'","E","v","e","n","t"," ","N","a","m","e","'",","," ","'","C","r","e","a","t","e","U","s","e","r","'",")"," ","o","r"," ","c","o","n","t","a","i","n","s","(","'","E","v","e","n","t"," ","N","a","m","e","'",","," ","'","D","e","l","e","t","e","U","s","e","r","'",")"," ","o","r"," ","c","o","n","t","a","i","n","s","(","'","E","v","e","n","t"," ","N","a","m","e","'",","," ","'","U","p","d","a","t","e","U","s","e","r","'",")">>,
           <<"*"," ","|"," ","s","e","a","r","c","h"," ","\"","u","s","e","r","\""," ","\"","c","r","e","a","t","e","d","\""," ","O","R"," ","\"","u","s","e","r","\""," ","\"","d","e","l","e","t","e","d","\""," ","O","R"," ","\"","u","s","e","r","\""," ","\"","m","o","d","i","f","i","e","d","\"">> >>,
      high_volume_requests |->
        << <<"*"," ","|"," ","s","t","a","t","s"," ","c","o","u","n","t"," ","a","s"," ","r","e","q","u","e","s","t","s"," ","b","y"," ","\"","S","o","u","r","c","e"," ","I","P","\""," ","|"," ","w","h","e","r","e"," ","r","e","q","u","e","s","t","s"," ",">"," ","1","0","0"," ","|"," ","s","o","r","t"," ","-","r","e","q","u","e","s","t","s">>,
           <<"*"," ","|"," ","s","t","a","t","s"," ","c","o","u","n","t"," ","a","s"," ","r","e","q","u","e","s","t","s"," ","b","y"," ","\"","U","s","e","r","\""," ","|"," ","w","h","e","r","e"," ","r","e","q","u","e","s","t","s"," ",">"," ","5","0"," ","|"," ","s","o","r","t"," ","-","r","e","q","u","e","s","t","s">> >>,
      cloud_guard |->
        << <<"*"," ","|"," ","w","h","e","r","e"," ","\"","L","o","g"," ","S","o","u","r","c","e","\""," ","="," ","\"","O","C","I"," ","C","l","o","u","d"," ","G","u","a","r","d","\"">>,
           <<"*"," ","|"," ","s","e","a","r","c","h"," ","\"","c","l","o","u","d","\""," ","\"","g","u","a","r","d","\""," ","O","R"," ","\"","s","e","c","u","r","i","t","y","\""," ","\"","f","i","n","d","i","n","g","\""," ","O","R"," ","\"","t","h","r","e","a","t","\""," ","\"","d","e","t","e","c","t","e","d","\"">> >>,
      security_events |->
        << <<"*"," ","|"," ","s","e","a","r","c","h"," ","\"","s","e","c","u","r","i","t","y","\""," ","O","R"," ","\"","t","h","r","e","a","t","\""," ","O","R"," ","\"","m","a","l","w","a","r","e","\""," ","O","R"," ","\"","i","n","t","r","u","s","i","o","n","\"">>,
           <<"*"," ","|"," ","w","h","e","r","e"," ","c","o","n","t","a","i","n","s","(","\"","L","o","g"," ","E","n","t","r","y","\"",","," ","\"","s","e","c","u","r","i","t","y","\"",")"," ","o","r"," ","c","o","n","t","a","i","n","s","(","\"","M","e","s","s","a","g","e","\"",","," ","\"","t","h","r","e","a","t","\"",")">> >> ]

\* base_query.lstrip(chars): the query without its leading characters out of chars
LStrip(s, chars) ==
    LET kept == {i \in 1..Len(s) : s[i] \notin chars} IN
    IF kept = {} THEN <<>> ELSE SubSeq(s, Min(kept), Len(s))

\* query_with_time of QueryMapper.get_security_query for time_period_minutes > 0
QueryWithTime(base_query, time_period_minutes) ==
    GetTimeFilter(time_period_minutes) \o <<" ","|"," ">> \o Strip(LStrip(base_query, {"*", " ", "|"}))

\* "queries" of QueryMapper.get_security_query(query_type, time_period_minutes)
GetSecurityQuery(query_type, time_period_minutes) ==
    [i \in DOMAIN security_queries[query_type] |->
        QueryWithTime(security_queries[query_type][i], time_period_minutes)]
(***************************************************************************)
(* QueryValidator (query_validator.py)                                     *)
(***************************************************************************)

\* preserve_patterns of QueryValidator._should_preserve_query
preserve_patterns ==
    << <<"l","o","o","k","u","p"," ","t","a","b","l","e">>,
       <<"c","o","m",".","o","r","a","c","l","e","c","l","o","u","d",".","l","o","g","g","i","n","g",".","c","u","s","t","o","m">>,
       <<"r","e","n","a","m","e">>,
       <<"e","v","a","l"," ","v","o","l"," ","="," ","u","n","i","t">>,
       <<"g","e","o","s","t","a","t","s">>,
       <<"h","i","g","h","l","i","g","h","t","g","r","o","u","p","s">>,
       <<"c","l","a","s","s","i","f","y">>,
       <<"t","i","m","e","s","t","a","t","s">>,
       <<"l","i","n","k"," ","s","p","a","n">>,
       <<"'","W","e","b"," ","A","p","p","l","i","c","a","t","i","o","n"," ","F","i","r","e","w","a","l","l">>,
       <<"c","o","m","p","a","r","e"," ","t","i","m","e","s","h","i","f","t">>,
       <<"O","C","I"," ","W","A","F"," ","L","o","g","s">>,
       <<"R","e","q","u","e","s","t"," ","P","r","o","t","e","c","t","i","o","n"," ","R","u","l","e"," ","I","D","s">>,
       <<"H","o","s","t"," ","I","P"," ","A","d","d","r","e","s","s"," ","(","C","l","i","e","n","t",")">>,
       <<"S","u","r","i","c","a","t","a">>,
       <<"W","i","n","d","o","w","s"," ","S","y","s","m","o","n">>,
       <<"U","s","e","r"," ","A","g","e","n","t">>,
       <<"R","e","s","p","o","n","s","e"," ","C","o","d","e">> >>

\* QueryValidator._should_preserve_query
ShouldPreserveQuery(query) == \E i \in DOMAIN preserve_patterns : Contains(query, preserve_patterns[i])

\* length of the longest run of \d characters of s starting at 0-based offset j
DigitRun(s, j) ==
    IF j >= Len(s) THEN 0
    ELSE Min({k \in 0..(Len(s) - j) : k = Len(s) - j \/ ~IsDigit(s[j + k + 1])})

\* top_pattern = r"\|\s*top\s+(\d+)\s+Count" tried at 0-based offset i
TopMatch(s, i) ==
    LET a == i + 1 + SpaceRun(s, i + 1)
        s1 == SpaceRun(s, a + 3)
        b == a + 3 + s1
        d == DigitRun(s, b)
        s2 == SpaceRun(s, b + d)
        c == b + d + s2
    IN  IF /\ OccursAt(s, <<"|">>, i) /\ OccursAt(s, <<"t","o","p">>, a) /\ s1 > 0 /\ d > 0 /\ s2 > 0
           /\ OccursAt(s, <<"C","o","u","n","t">>, c)
        THEN [ok |-> TRUE, n |-> SubSeq(s, b + 1, b + d), end |-> c + 5]
        ELSE [ok |-> FALSE, n |-> <<>>, end |-> i]

RECURSIVE TopSub(_)
\* re.sub(top_pattern, r"| sort -Count | head \1", query): every match, left to right
TopSub(s) ==
    LET starts == {i \in 0..(Len(s) - 1) : TopMatch(s, i).ok} IN
    IF starts = {} THEN s
    ELSE LET i == Min(starts)
             m == TopMatch(s, i)
         IN  Prefix(s, i) \o <<"|"," ","s","o","r","t"," ","-","C","o","u","n","t"," ","|"," ","h","e","a","d"," ">> \o m.n \o TopSub(Suffix(s, m.end))

\* the rename removal of _fix_basic_syntax
RenameRemoval(query) ==
    IF Contains(query, <<"|"," ","r","e","n","a","m","e"," ">>)
    THEN LET rename_pos == PyFind(query, <<"|"," ","r","e","n","a","m","e"," ">>)
             pipe_after_rename == FindFrom(query, <<" ","|"," ">>, rename_pos + 1)
         IN  IF pipe_after_rename > 0
             THEN Prefix(query, rename_pos) \o <<" ">> \o Suffix(query, pipe_after_rename)
             ELSE Strip(Prefix(query, rename_pos))
    ELSE query

\* the search removal of _fix_basic_syntax
SearchRemoval(query) ==
    Bind(Lower(query), LAMBDA lowered :
        IF Contains(lowered, <<"|"," ","s","e","a","r","c","h"," ">>)
        THEN LET search_pos == PyFind(lowered, <<"|"," ","s","e","a","r","c","h"," ">>) IN
             IF search_pos >= 0 THEN Strip(Prefix(query, search_pos)) ELSE query
        ELSE query)

\* QueryValidator._fix_basic_syntax
FixBasicSyntax(query) ==
    Bind(Replace(query, <<"!","="," ","n","u","l","l">>, <<"i","s"," ","n","o","t"," ","n","u","l","l">>), LAMBDA q1 :
    Bind(Replace(q1, <<"=","="," ","n","u","l","l">>, <<"i","s"," ","n","u","l","l">>), LAMBDA q2 :
    Bind(Replace(q2, <<"(","d","r","o","p",","," ","r","e","j","e","c","t",")">>, <<"(","'","d","r","o","p","'",","," ","'","r","e","j","e","c","t","'",")">>), LAMBDA q3 :
    Bind(Replace(q3, <<"(","a","c","c","e","p","t",","," ","a","l","l","o","w",")">>, <<"(","'","a","c","c","e","p","t","'",","," ","'","a","l","l","o","w","'",")">>), LAMBDA q4 :
    Bind(Replace(q4, <<"|"," ","t","o","p"," ","1","0"," ","C","o","u","n","t">>, <<"|"," ","s","o","r","t"," ","-","C","o","u","n","t"," ","|"," ","h","e","a","d"," ","1","0">>), LAMBDA q5 :
    Bind(Replace(q5, <<"|"," ","t","o","p"," ","5"," ","C","o","u","n","t">>, <<"|"," ","s","o","r","t"," ","-","C","o","u","n","t"," ","|"," ","h","e","a","d"," ","5">>), LAMBDA q6 :
    Bind(Replace(q6, <<"|"," ","t","o","p"," ","C","o","u","n","t">>, <<"|"," ","s","o","r","t"," ","-","C","o","u","n","t"," ","|"," ","h","e","a","d"," ","1","0">>), LAMBDA q7 :
    Bind(TopSub(q7), LAMBDA q8 :
    Bind(RenameRemoval(q8), LAMBDA q9 :
    SearchRemoval(q9))))))))))

\* source_mappings of QueryValidator._fix_log_sources, in dict order
source_mappings ==
    << <<<<"'","L","i","n","u","x"," ","A","u","d","i","t"," ","L","o","g","s","'">>, <<"'","O","C","I"," ","A","u","d","i","t"," ","L","o","g","s","'">>>>,
       <<<<"'","N","e","t","w","o","r","k"," ","S","e","c","u","r","i","t","y"," ","E","v","e","n","t","s","'">>, <<"'","O","C","I"," ","V","C","N"," ","F","l","o","w"," ","U","n","i","f","i","e","d"," ","S","c","h","e","m","a"," ","L","o","g","s","'">>>> >>

RECURSIVE ReplaceEach(_, _)
\* for old, new in mappings.items(): query = query.replace(old, new)
ReplaceEach(query, mappings) ==
    IF mappings = <<>> THEN query
    ELSE Bind(Replace(query, Head(mappings)[1], Head(mappings)[2]), LAMBDA replaced :
         ReplaceEach(replaced, Tail(mappings)))

\* QueryValidator._fix_log_sources
FixLogSources(query) == ReplaceEach(query, source_mappings)

\* field_mappings of QueryValidator._fix_field_references, in dict order
field_mappings ==
    << <<<<"'","E","v","e","n","t"," ","I","D","'">>, <<"'","E","v","e","n","t"," ","T","y","p","e","'">>>>,
       <<<<"'","E","v","e","n","t"," ","N","a","m","e","'">>, <<"'","E","v","e","n","t"," ","N","a","m","e","'">>>>,
       <<<<"'","H","o","s","t"," ","I","P"," ","A","d","d","r","e","s","s"," ","(","C","l","i","e","n","t",")","'">>, <<"'","S","o","u","r","c","e"," ","I","P","'">>>>,
       <<<<"'","R","e","q","u","e","s","t"," ","P","r","o","t","e","c","t","i","o","n"," ","R","u","l","e"," ","I","D","s","'">>, <<"'","E","v","e","n","t"," ","T","y","p","e","'">>>>,
       <<<<"'","U","s","e","r"," ","N","a","m","e","'">>, <<"'","P","r","i","n","c","i","p","a","l"," ","N","a","m","e","'">>>>,
       <<<<"'","C","o","m","p","u","t","e","r"," ","N","a","m","e","'">>, <<"'","C","o","m","p","a","r","t","m","e","n","t"," ","N","a","m","e","'">>>>,
       <<<<"'","S","o","u","r","c","e"," ","I","P","'">>, <<"S","o","u","r","c","e","I","P">>>>,
       <<<<"'","S","o","u","r","c","e"," ","P","o","r","t","'">>, <<"S","o","u","r","c","e","P","o","r","t">>>>,
       <<<<"'","D","e","s","t","i","n","a","t","i","o","n"," ","I","P","'">>, <<"D","e","s","t","i","n","a","t","i","o","n","I","P">>>>,
       <<<<"'","D","e","s","t","i","n","a","t","i","o","n"," ","P","o","r","t","'">>, <<"D","e","s","t","i","n","a","t","i","o","n","P","o","r","t">>>>,
       <<<<"'","L","o","g"," ","S","o","u","r","c","e","'">>, <<"'","L","o","g"," ","S","o","u","r","c","e","'">>>>,
       <<<<"'","C","o","n","t","e","n","t"," ","S","i","z","e"," ","O","u","t","'">>, <<"'","C","o","n","t","e","n","t"," ","S","i","z","e"," ","O","u","t","'">>>> >>

\* QueryValidator._fix_field_references
FixFieldReferences(query) == ReplaceEach(query, field_mappings)

\* QueryValidator._minimal_query_fixes
MinimalQueryFixes(query) ==
    Bind(Replace(query, <<"!","="," ","n","u","l","l">>, <<"i","s"," ","n","o","t"," ","n","u","l","l">>), LAMBDA q1 :
    Bind(Replace(q1, <<"=","="," ","n","u","l","l">>, <<"i","s"," ","n","u","l","l">>), LAMBDA q2 :
    Bind(Replace(q2, <<"(","d","r","o","p",","," ","r","e","j","e","c","t",")">>, <<"(","'","d","r","o","p","'",","," ","'","r","e","j","e","c","t","'",")">>), LAMBDA q3 :
    Replace(q3, <<"(","a","c","c","e","p","t",","," ","a","l","l","o","w",")">>, <<"(","'","a","c","c","e","p","t","'",","," ","'","a","l","l","o","w","'",")">>))))

IsNonQuoteChar(c) == c # "'"

\* length of the longest run of [^'] characters of s starting at 0-based offset j
NonQuoteRun(s, j) ==
    IF j >= Len(s) THEN 0
    ELSE Min({k \in 0..(Len(s) - j) : k = Len(s) - j \/ ~IsNonQuoteChar(s[j + k + 1])})

\* re.search(r"stats count by '[^']*'", query)
StatsByQuotedSearch(s) ==
    \E i \in 0..Len(s) :
        LET j == i + Len(<<"s","t","a","t","s"," ","c","o","u","n","t"," ","b","y"," ","'">>) IN
        /\ OccursAt(s, <<"s","t","a","t","s"," ","c","o","u","n","t"," ","b","y"," ","'">>, i)
        /\ OccursAt(s, <<"'">>, j + NonQuoteRun(s, j))

\* problematic_fields of _simplify_complex_operations
problematic_fields == << <<"'","S","o","u","r","c","e"," ","I","P","'">>, <<"'","D","e","s","t","i","n","a","t","i","o","n"," ","I","P","'">>, <<"'","L","o","g"," ","S","o","u","r","c","e","'">> >>

RECURSIVE SimplifyStatsBy(_, _)
\* for field in problematic_fields: if ... in query: replace; break
SimplifyStatsBy(query, fields) ==
    IF fields = <<>> THEN query
    ELSE IF Contains(query, <<"s","t","a","t","s"," ","c","o","u","n","t"," ","b","y"," ">> \o Head(fields))
    THEN Replace(query, <<"s","t","a","t","s"," ","c","o","u","n","t"," ","b","y"," ">> \o Head(fields), <<"s","t","a","t","s"," ","c","o","u","n","t"," ","b","y"," ","A","c","t","i","o","n">>)
    ELSE SimplifyStatsBy(query, Tail(fields))

\* the lookup removal of _simplify_complex_operations
ValidatorLookupRemoval(query) ==
    IF Contains(query, <<"|"," ","l","o","o","k","u","p">>) /\ ~Contains(query, <<"W","A","F">>) /\ ~Contains(query, <<"M","I","T","R","E">>)
    THEN LET lookup_pos == PyFind(query, <<"|"," ","l","o","o","k","u","p">>) IN
         IF lookup_pos > 0 THEN Strip(Prefix(query, lookup_pos)) ELSE query
    ELSE query

\* QueryValidator._simplify_complex_operations
SimplifyComplexOperations(query) ==
    IF \/ Contains(query, <<"W","A","F">>) \/ Contains(query, <<"S","u","r","i","c","a","t","a">>)
       \/ Contains(query, <<"l","o","o","k","u","p"," ","t","a","b","l","e">>) \/ Contains(query, <<"c","o","m",".","o","r","a","c","l","e","c","l","o","u","d",".","l","o","g","g","i","n","g",".","c","u","s","t","o","m">>)
    THEN MinimalQueryFixes(query)
    ELSE Bind(IF /\ Contains(query, <<"O","C","I"," ","V","C","N"," ","F","l","o","w">>) /\ Contains(query, <<"s","t","a","t","s"," ","c","o","u","n","t"," ","b","y">>)
                 /\ StatsByQuotedSearch(query)
              THEN SimplifyStatsBy(query, problematic_fields)
              ELSE query,
              LAMBDA q1 : ValidatorLookupRemoval(q1))

\* available_log_sources of QueryValidator.__init__
available_log_sources == << <<"O","C","I"," ","A","u","d","i","t"," ","L","o","g","s">>, <<"O","C","I"," ","V","C","N"," ","F","l","o","w"," ","U","n","i","f","i","e","d"," ","S","c","h","e","m","a"," ","L","o","g","s">> >>

\* a final validation that reports every query as valid, with the warnings of lines 248
\* to 257
ValidateFinalQueryAlwaysValid(query) ==
    [is_valid |-> TRUE,
     warnings |->
         (IF \E i \in DOMAIN available_log_sources : Contains(query, available_log_sources[i])
          THEN <<>> ELSE <<"Query may not reference available log sources">>)
         \o (IF Contains(query, <<"d","a","t","e","R","e","l","a","t","i","v","e">>)
             THEN <<"dateRelative function may cause 'Missing input' errors">> ELSE <<>>)]

\* QueryValidator._validate_final_query
ValidateFinalQuery(query) ==
    LET w1 == IF \E i \in DOMAIN available_log_sources : Contains(query, available_log_sources[i])
              THEN <<>> ELSE <<"Query may not reference available log sources">>
        w2 == IF Contains(Lower(query), <<"s","t","a","t","s"," ","c","o","u","n","t"," ","b","y">>) /\ Contains(query, <<"'">>)
              THEN <<"Stats operations with quoted field names may cause parsing issues">> ELSE <<>>
        w3 == IF Contains(query, <<"d","a","t","e","R","e","l","a","t","i","v","e">>)
              THEN <<"dateRelative function may cause 'Missing input' errors">> ELSE <<>>
    IN  Bind(w1 \o w2 \o w3, LAMBDA warnings :
        [is_valid |-> Len(warnings) = 0, warnings |-> warnings])

\* the normalization steps 1 to 4 of validate_and_fix_query
NormalizeQuery(query) ==
    Bind(FixBasicSyntax(query), LAMBDA q1 :
    Bind(FixLogSources(q1), LAMBDA q2 :
    Bind(FixFieldReferences(q2), LAMBDA q3 :
    SimplifyComplexOperations(q3))))

\* validate_and_fix_query without the preservation check of lines 53 to 60
ValidateAndFixQueryWithoutPreservation(query) ==
    Bind(NormalizeQuery(query), LAMBDA fixed_query :
    Bind(ValidateFinalQuery(fixed_query), LAMBDA validation_result :
    [success |-> TRUE,
     original_query |-> query,
     fixed_query |-> fixed_query,
     validation_result |-> validation_result,
     warnings |-> validation_result.warnings]))

\* QueryValidator.validate_and_fix_query on a str input
ValidateAndFixQuery(query) ==
    IF ShouldPreserveQuery(query)
    THEN [success |-> TRUE,
          original_query |-> query,
          fixed_query |-> query,
          validation_result |-> [is_valid |-> TRUE,
                                 warnings |-> <<"Query preserved as-is due to complexity">>],
          warnings |-> <<"Query preserved as-is due to complexity">>]
    ELSE Bind(NormalizeQuery(query), LAMBDA fixed_query :
         Bind(ValidateFinalQuery(fixed_query), LAMBDA validation_result :
         [success |-> TRUE,
          original_query |-> query,
          fixed_query |-> fixed_query,
          validation_result |-> validation_result,
          warnings |-> validation_result.warnings]))

(***************************************************************************)
(* Requests: the queries and parameters the tools are called with          *)
(***************************************************************************)

\* longest pipeline (number of stages after the leading filter) of a request's query
MaxStages == 2

\* leading filter expressions
Heads ==
    { <<"*">>,
      <<"S","e","v","e","r","i","t","y"," ","="," ","'","e","r","r","o","r","'">>,
      <<"'","E","v","e","n","t"," ","I","D","'"," ","!","="," ","n","u","l","l">>,
      <<"'","L","o","g"," ","S","o","u","r","c","e","'"," ","="," ","'","O","C","I"," ","W","A","F"," ","L","o","g","s","'">>,
      <<"T","i","m","e"," ",">"," ","d","a","t","e","R","e","l","a","t","i","v","e","(","7","d",")">> }

\* pipeline stages, in the order they follow one another in a query
Stages ==
    << <<"w","h","e","r","e"," ","T","i","m","e"," ",">"," ","d","a","t","e","R","e","l","a","t","i","v","e","(","1","h",")">>,
       <<"s","t","a","t","s"," ","c","o","u","n","t","(","*",")">>,
       <<"t","i","m","e","s","t","a","t","s"," ","c","o","u","n","t">>,
       <<"s","o","r","t"," ","-","C","o","u","n","t">>,
       <<"h","e","a","d"," ","1","0">> >>

RECURSIVE Pipeline(_, _)
\* the stages chosen, from stage k on, each rendered as " | stage"
Pipeline(chosen, k) ==
    IF k > Len(Stages) THEN <<>>
    ELSE (IF k \in chosen THEN <<" ","|"," ">> \o Stages[k] ELSE <<>>) \o Pipeline(chosen, k + 1)

\* leading filters of queries with a lookup stage: no marker, and one with each of the
\* markers the two lookup removals test for
LookupHeads ==
    { <<"*">>,
      <<"F","r","a","m","e","w","o","r","k"," ","="," ","'","M","I","T","R","E","'">>,
      <<"'","L","o","g"," ","S","o","u","r","c","e","'"," ","="," ","'","O","C","I"," ","W","A","F"," ","L","o","g","s","'">>,
      <<"S","e","n","s","o","r"," ","="," ","'","S","u","r","i","c","a","t","a","'">> }

\* head | lookup Hosts | head 10
LookupQueries == {head \o <<" ","|"," ","l","o","o","k","u","p"," ","H","o","s","t","s"," ","|"," ","h","e","a","d"," ","1","0">> : head \in LookupHeads}

\* a leading filter followed by at most MaxStages stages, and the queries with a lookup
\* stage
Queries ==
    {h \o Pipeline(chosen, 1) :
        h \in Heads, chosen \in {c \in SUBSET DOMAIN Stages : Cardinality(c) <= MaxStages}}
        \cup LookupQueries

\* time_range_minutes values (both tools enforce 1 <= m <= 43200)
Minutes == {30, 90, 1500}


\* console_mode and bypass_validation of execute_logan_query
ToolModes == [console_mode : BOOLEAN, bypass_validation : BOOLEAN]
(***************************************************************************)
(* The backend, as the code sees it                                        *)
(***************************************************************************)

\* response.data of client.query / response.json() of the console request: the rows,
\* and whether _format_response can walk them (it catches its own exceptions)
DataResponses ==
    { [items |-> <<>>, well_formed |-> TRUE],
      [items |-> <<"row">>, well_formed |-> TRUE],
      [items |-> <<"row">>, well_formed |-> FALSE] }

\* oci.exceptions.ServiceError values: machine-readable code and message
ServiceErrors ==
    { [code |-> "InvalidParameter", message |-> "Invalid query string"],
      [code |-> "NotAuthorizedOrNotFound", message |-> "Authorization failed or requested resource not found"] }

\* str(e) of the other exceptions a backend call raises (connectivity, timeout)
OtherExceptions == {"Connection aborted"}

\* str(e) of the exception LoganClient.__init__ raises when no client can be built
ClientFailures == {"Failed to load OCI config"}

\* status codes of the console request other than 200 and 201
HttpErrorStatuses == {"400"}

(***************************************************************************)
(* Initial state                                                           *)
(***************************************************************************)

\* Python None
None == [none |-> TRUE]

\* d.get(k, default)
Get(d, k, default) == IF k \in DOMAIN d THEN d[k] ELSE default

\* d[k] = v for every k of upd
With(d, upd) == upd @@ d

\* no request has been made
RequestIdle ==
    /\ pc = "idle"
    /\ surface = "none"
    /\ request_query = <<>>
    /\ request_minutes = 0
    /\ request_console_mode = FALSE
    /\ request_bypass = FALSE
    /\ client_query = <<>>
    /\ was_normalized = FALSE
    /\ submissions = <<>>
    /\ answers = <<>>
    /\ execResult = None
    /\ execException = "none"
    /\ toolResult = None
    /\ toolException = "none"

\* no rewrite function has been applied on its own
RewriteIdle ==
    /\ rewrite_rule = "none"
    /\ rewrite_input = <<>>
    /\ rewrite_minutes = 0
    /\ rewrite_output = <<>>
    /\ rewrite_exception = "none"

\* the calls execute_logan_query may receive while the server runs
MaxCalls == 2

Calls == 1..MaxCalls

\* the server's configuration at startup: the region and the tenancy of ~/.oci/config;
\* LOGAN_REGION and LOGAN_COMPARTMENT_ID are not set
default_region == "us-ashburn-1"

default_compartment == "ocid1.tenancy.oc1..startup"

\* a call execute_logan_query has not received yet; "" stands for an argument that is
\* None (the code tests the overrides for truth)
NewCall == [pc |-> "new", compartment_id |-> "", region |-> "", built |-> None, client |-> None]

\* the module state of fastmcp_server after import: no client built, the environment as
\* the process was started, no call received
ClientUnused ==
    /\ _client = None
    /\ environ = [LOGAN_REGION |-> ""]
    /\ calls = [c \in Calls |-> NewCall]

Init ==
    /\ RequestIdle
    /\ RewriteIdle
    /\ ClientUnused

(***************************************************************************)
(* LoganClient: execution (logan_client.py)                                *)
(***************************************************************************)

\* LoganClient._format_response; execution_time and are_partial_results are copied from
\* the response and play no part in any decision
FormatResponse(response_data) ==
    IF response_data.well_formed
    THEN [success |-> TRUE, results |-> response_data.items, total_count |-> Len(response_data.items)]
    ELSE [error |-> <<"Failed to format response: ", "not iterable">>, success |-> FALSE]

\* a service-error result that drops e.message: {"error": "OCI Service Error", "success": False}
ServiceErrorResultWithoutMessage(e) == [error |-> <<"OCI Service Error">>, success |-> FALSE]

\* {"error": f"OCI Service Error: {e.message}", "success": False}
ServiceErrorResult(e) == [error |-> <<"OCI Service Error: ", e.message>>, success |-> FALSE]

\* {"error": str(e), "success": False}
ExceptionResult(x) == [error |-> <<x>>, success |-> FALSE]

\* execute_query up to its backend call: which branch it takes and the query it submits
ExecuteQuerySubmission(q, minutes) ==
    Bind(FixQuerySyntax(q), LAMBDA fixed :
        IF minutes # 0 /\ ~HasTimeFilter(fixed)
        THEN [path |-> "primary", query_string |-> AddTimeFilterWithField(fixed, minutes)]
        ELSE [path |-> "direct", query_string |-> fixed])

\* a time-filter branch that returns the formatted response without lines 241 to 245
PrimaryResultUnannotated(response_data, query_string, minutes) == FormatResponse(response_data)

\* execute_query, time-filter branch, after client.query returned
PrimaryResult(response_data, query_string, minutes) ==
    Bind(FormatResponse(response_data), LAMBDA result :
    IF Get(result, "success", FALSE) /\ "results" \in DOMAIN result
    THEN With(result, [query_used |-> query_string,
                       time_period_minutes |-> minutes,
                       time_method_used |-> "timestamp",
                       data_source |-> "Oracle Cloud Infrastructure Logging Analytics",
                       is_mock_data |-> FALSE])
    ELSE With(result, [data_source |-> "Oracle Cloud Infrastructure Logging Analytics",
                       is_mock_data |-> FALSE,
                       note |-> "No results found in OCI Logging Analytics for this query - this is real data, not mock"]))

\* execute_query, branch without time filtering, after client.query returned
DirectResult(response_data, query_string, minutes) ==
    With(FormatResponse(response_data), [query_used |-> query_string, time_period_minutes |-> minutes])

\* a fallback result without line 354 (result["fallback_used"] = True)
FallbackResultUnflagged(response_data, query_string) ==
    With(FormatResponse(response_data), [query_used |-> query_string])

\* _execute_query_fallback after client.query returned
FallbackResult(response_data, query_string) ==
    With(FormatResponse(response_data), [query_used |-> query_string, fallback_used |-> TRUE])

\* "timeFilter" of the console payload: end_time is now and start_time lies
\* time_period_minutes before it
ConsoleTimeFilter(minutes) ==
    [timeStart |-> [minutes_before_end |-> minutes], timeEnd |-> "now", timeZone |-> "UTC"]

\* execute_query_like_console after requests.post returned 200 (items are the rows of
\* the response) or 201 (the query was accepted as asynchronous: no rows)
ConsoleResult(status, items, console_query, q, minutes) ==
    LET result == IF status = "200"
                  THEN [success |-> TRUE, results |-> items, total_count |-> Len(items)]
                  ELSE [success |-> TRUE, results |-> <<>>, total_count |-> 0, async_query |-> TRUE]
    IN  With(result, [query_used |-> console_query,
                      original_query |-> q,
                      time_period_minutes |-> minutes,
                      console_mode |-> TRUE,
                      compartment_id_in_subtree |-> TRUE,
                      data_source |-> "Oracle Cloud Infrastructure Logging Analytics",
                      is_mock_data |-> FALSE])

(***************************************************************************)
(* execute_logan_query (fastmcp_server.py)                                 *)
(***************************************************************************)

\* normalized_query of execute_logan_query: the validator's fixed_query when it is non-empty
ToolNormalizedQuery(q) ==
    Bind(ValidateAndFixQuery(q), LAMBDA validated :
        IF validated.success /\ validated.fixed_query # <<>>
        THEN validated.fixed_query
        ELSE q)

\* execute_logan_query after the client call returned result
ToolReturn(result) ==
    IF was_normalized
    THEN With(result, [_query_normalized |-> TRUE,
                       _original_query |-> request_query,
                       _normalized_query |-> client_query])
    ELSE result

\* execute_logan_query's except branch
ToolFailure(x) ==
    [success |-> FALSE,
     message |-> "Query execution failed",
     details |-> x,
     hint |-> "Check OCI credentials and verify query syntax.",
     _original_query |-> request_query,
     _normalized_query |-> IF was_normalized THEN client_query ELSE None]

(***************************************************************************)
(* search_logs (main.py over LogAnalysisSkill and LoganClientAdapter)      *)
(***************************************************************************)

\* LoganClientAdapter.execute_query's except branch
AdapterFailure(x) == [success |-> FALSE, error |-> <<x>>, results |-> <<>>]

\* LogAnalysisSkill.search_logs and main.search_logs over the adapter's result
SearchLogsReturn(result) ==
    [success |-> TRUE,
     total_count |-> Get(result, "total_count", 0),
     results |-> Get(result, "results", <<>>),
     query_used |-> Get(result, "query_used", request_query),
     time_range_minutes |-> request_minutes]

(***************************************************************************)
(* Actions                                                                 *)
(***************************************************************************)

\* the client call both tools make once they hold a client: the first backend submission
CallClient(arg, minutes, console) ==
    \E first \in {IF console
                  THEN [path |-> "console", query_string |-> ConsoleQuery(arg),
                        time_filter |-> ConsoleTimeFilter(minutes)]
                  ELSE ExecuteQuerySubmission(arg, minutes)} :
        /\ client_query' = arg
        /\ submissions' = <<first>>
        /\ pc' = first.path \o "_wait"
        /\ UNCHANGED <<rewriteVars, clientVars,
                   answers, execResult, execException, toolResult, toolException>>

\* execute_logan_query up to the backend call: _get_client, the validator, the client call
ExecuteLoganQueryCall ==
    /\ pc = "idle"
    /\ \E q \in Queries, minutes \in Minutes, mode \in ToolModes :
          /\ surface' = "execute_logan_query"
          /\ request_query' = q
          /\ request_minutes' = minutes
          /\ request_console_mode' = mode.console_mode
          /\ request_bypass' = mode.bypass_validation
          /\ \E normalized_query \in {ToolNormalizedQuery(q)} :
                /\ was_normalized' = (normalized_query # q)
                /\ CallClient(normalized_query, minutes, mode.console_mode)

\* execute_logan_query when _get_client raises (LoganClient.__init__ fails): the call is
\* outside the tool's try
ExecuteLoganQueryClientFailure ==
    /\ pc = "idle"
    /\ \E q \in Queries, minutes \in Minutes, mode \in ToolModes, x \in ClientFailures :
          /\ surface' = "execute_logan_query"
          /\ request_query' = q
          /\ request_minutes' = minutes
          /\ request_console_mode' = mode.console_mode
          /\ request_bypass' = mode.bypass_validation
          /\ toolException' = x
    /\ pc' = "done"
    /\ UNCHANGED <<rewriteVars, clientVars,
                   client_query, was_normalized, submissions, answers, execResult,
                   execException, toolResult>>

\* search_logs up to the backend call: the skill, the adapter's _get_client, the client call
SearchLogsCall ==
    /\ pc = "idle"
    /\ \E q \in Queries, minutes \in Minutes, console \in BOOLEAN :
          /\ surface' = "search_logs"
          /\ request_query' = q
          /\ request_minutes' = minutes
          /\ request_console_mode' = console
          /\ CallClient(q, minutes, console)
    /\ UNCHANGED <<request_bypass, was_normalized>>

\* search_logs when the adapter's _get_client raises: the call is outside the adapter's try
SearchLogsClientFailure ==
    /\ pc = "idle"
    /\ \E q \in Queries, minutes \in Minutes, console \in BOOLEAN, x \in ClientFailures :
          /\ surface' = "search_logs"
          /\ request_query' = q
          /\ request_minutes' = minutes
          /\ request_console_mode' = console
          /\ toolException' = x
    /\ pc' = "done"
    /\ UNCHANGED <<rewriteVars, clientVars,
                   request_bypass, client_query, was_normalized, submissions, answers,
                   execResult, execException, toolResult>>

\* the client method returned result: the tool's own return
ClientReturns(result) ==
    /\ execResult' = result
    /\ toolResult' = IF surface = "execute_logan_query" THEN ToolReturn(result)
                     ELSE SearchLogsReturn(result)
    /\ pc' = "done"
    /\ UNCHANGED <<rewriteVars, clientVars,
                   surface, request_query, request_minutes, request_console_mode, request_bypass,
                   client_query, was_normalized, submissions, execException, toolException>>

\* the client method raised x: the tool's (or the adapter's) except branch
ClientRaises(x) ==
    /\ execException' = x
    /\ toolResult' = IF surface = "execute_logan_query" THEN ToolFailure(x)
                     ELSE SearchLogsReturn(AdapterFailure(x))
    /\ pc' = "done"
    /\ UNCHANGED <<rewriteVars, clientVars,
                   surface, request_query, request_minutes, request_console_mode, request_bypass,
                   client_query, was_normalized, submissions, execResult, toolException>>

LastQuery == submissions[Len(submissions)].query_string

\* execute_query, time-filter branch: client.query returned
PrimaryReturns(response_data) ==
    /\ pc = "primary_wait"
    /\ answers' = Append(answers, [kind |-> "data", response_data |-> response_data])
    /\ ClientReturns(PrimaryResult(response_data, LastQuery, request_minutes))

\* the time-filter branch with the handler of lines 279 to 281 in place of the one of
\* lines 256 to 259: the service error is returned and no fallback is submitted
PrimaryServiceErrorWithoutFallback(e) ==
    /\ pc = "primary_wait"
    /\ answers' = Append(answers, [kind |-> "service_error", e |-> e])
    /\ ClientReturns(ServiceErrorResult(e))

\* execute_query, time-filter branch: client.query raised ServiceError; the fallback submits
PrimaryServiceError(e) ==
    /\ pc = "primary_wait"
    /\ answers' = Append(answers, [kind |-> "service_error", e |-> e])
    /\ submissions' = Append(submissions,
                             [path |-> "fallback", query_string |-> FallbackQuery(client_query)])
    /\ pc' = "fallback_wait"
    /\ UNCHANGED <<rewriteVars, clientVars,
                   surface, request_query, request_minutes, request_console_mode, request_bypass,
                   client_query, was_normalized, execResult, execException, toolResult,
                   toolException>>

\* execute_query, time-filter branch: client.query raised another exception; the try has
\* no handler for it
PrimaryOtherException(x) ==
    /\ pc = "primary_wait"
    /\ answers' = Append(answers, [kind |-> "exception", e |-> x])
    /\ ClientRaises(x)

\* execute_query, branch without time filtering: client.query returned
DirectReturns(response_data) ==
    /\ pc = "direct_wait"
    /\ answers' = Append(answers, [kind |-> "data", response_data |-> response_data])
    /\ ClientReturns(DirectResult(response_data, LastQuery, request_minutes))

\* execute_query, branch without time filtering: client.query raised ServiceError
DirectServiceError(e) ==
    /\ pc = "direct_wait"
    /\ answers' = Append(answers, [kind |-> "service_error", e |-> e])
    /\ ClientReturns(ServiceErrorResult(e))

\* execute_query, branch without time filtering: client.query raised another exception
DirectOtherException(x) ==
    /\ pc = "direct_wait"
    /\ answers' = Append(answers, [kind |-> "exception", e |-> x])
    /\ ClientReturns(ExceptionResult(x))

\* _execute_query_fallback: client.query returned
FallbackReturns(response_data) ==
    /\ pc = "fallback_wait"
    /\ answers' = Append(answers, [kind |-> "data", response_data |-> response_data])
    /\ ClientReturns(FallbackResult(response_data, LastQuery))

\* a fallback whose ServiceError handler submits the fallback query once more
FallbackServiceErrorRetrying(e) ==
    /\ pc = "fallback_wait"
    /\ answers' = Append(answers, [kind |-> "service_error", e |-> e])
    /\ submissions' = Append(submissions,
                             [path |-> "fallback", query_string |-> FallbackQuery(client_query)])
    /\ UNCHANGED <<rewriteVars, clientVars,
                   pc, surface, request_query, request_minutes, request_console_mode,
                   request_bypass, client_query, was_normalized, execResult, execException,
                   toolResult, toolException>>

\* _execute_query_fallback: client.query raised ServiceError
FallbackServiceError(e) ==
    /\ pc = "fallback_wait"
    /\ answers' = Append(answers, [kind |-> "service_error", e |-> e])
    /\ ClientReturns(ServiceErrorResult(e))

\* _execute_query_fallback: client.query raised another exception
FallbackOtherException(x) ==
    /\ pc = "fallback_wait"
    /\ answers' = Append(answers, [kind |-> "exception", e |-> x])
    /\ ClientReturns(ExceptionResult(x))

\* execute_query_like_console: requests.post returned 200 with rows items
ConsoleReturns(items) ==
    /\ pc = "console_wait"
    /\ answers' = Append(answers, [kind |-> "data", status |-> "200", items |-> items])
    /\ ClientReturns(ConsoleResult("200", items, LastQuery, client_query, request_minutes))

\* execute_query_like_console: requests.post returned 201
ConsoleAccepted ==
    /\ pc = "console_wait"
    /\ answers' = Append(answers, [kind |-> "data", status |-> "201"])
    /\ ClientReturns(ConsoleResult("201", <<>>, LastQuery, client_query, request_minutes))

\* execute_query_like_console: requests.post returned another status
ConsoleHttpError(status) ==
    /\ pc = "console_wait"
    /\ answers' = Append(answers, [kind |-> "http_error", status |-> status])
    /\ ClientReturns([error |-> <<"HTTP ", status, ": ", "response text">>, success |-> FALSE])

\* a console mode with the handler of lines 256 to 259: the ServiceError starts the
\* fallback of execute_query
ConsoleServiceErrorFallingBack(e) ==
    /\ pc = "console_wait"
    /\ answers' = Append(answers, [kind |-> "service_error", e |-> e])
    /\ submissions' = Append(submissions,
                             [path |-> "fallback", query_string |-> FallbackQuery(client_query)])
    /\ pc' = "fallback_wait"
    /\ UNCHANGED <<rewriteVars, clientVars,
                   surface, request_query, request_minutes, request_console_mode, request_bypass,
                   client_query, was_normalized, execResult, execException, toolResult,
                   toolException>>

\* execute_query_like_console: ServiceError raised
ConsoleServiceError(e) ==
    /\ pc = "console_wait"
    /\ answers' = Append(answers, [kind |-> "service_error", e |-> e])
    /\ ClientReturns(ServiceErrorResult(e))

\* execute_query_like_console: another exception raised (signer, connection)
ConsoleOtherException(x) ==
    /\ pc = "console_wait"
    /\ answers' = Append(answers, [kind |-> "exception", e |-> x])
    /\ ClientReturns(ExceptionResult(x))

Next ==
    \/ ExecuteLoganQueryCall
    \/ ExecuteLoganQueryClientFailure
    \/ SearchLogsCall
    \/ SearchLogsClientFailure
    \/ \E r \in DataResponses : PrimaryReturns(r)
    \/ \E e \in ServiceErrors : PrimaryServiceError(e)
    \/ \E x \in OtherExceptions : PrimaryOtherException(x)
    \/ \E r \in DataResponses : DirectReturns(r)
    \/ \E e \in ServiceErrors : DirectServiceError(e)
    \/ \E x \in OtherExceptions : DirectOtherException(x)
    \/ \E r \in DataResponses : FallbackReturns(r)
    \/ \E e \in ServiceErrors : FallbackServiceError(e)
    \/ \E x \in OtherExceptions : FallbackOtherException(x)
    \/ \E r \in DataResponses : ConsoleReturns(r.items)
    \/ ConsoleAccepted
    \/ \E s \in HttpErrorStatuses : ConsoleHttpError(s)
    \/ \E e \in ServiceErrors : ConsoleServiceError(e)
    \/ \E x \in OtherExceptions : ConsoleOtherException(x)

Spec == Init /\ [][Next]_vars


\* working_patterns of QueryValidator.__init__: the entries _suggest_alternative returns
working_patterns ==
    [basic_search |-> <<"*"," ","|"," ","h","e","a","d"," ","1","0">>,
     vcn_flow_logs |-> <<"'","L","o","g"," ","S","o","u","r","c","e","'"," ","i","n"," ","(","'","O","C","I"," ","V","C","N"," ","F","l","o","w"," ","U","n","i","f","i","e","d"," ","S","c","h","e","m","a"," ","L","o","g","s","'",")"," ","|"," ","h","e","a","d"," ","1","0">>,
     audit_logs |-> <<"'","L","o","g"," ","S","o","u","r","c","e","'"," ","i","n"," ","(","'","O","C","I"," ","A","u","d","i","t"," ","L","o","g","s","'",")"," ","|"," ","h","e","a","d"," ","1","0">>,
     simple_stats |->
         <<"'","L","o","g"," ","S","o","u","r","c","e","'"," ","i","n"," ","(","'","O","C","I"," ","V","C","N"," ","F","l","o","w"," ","U","n","i","f","i","e","d"," ","S","c","h","e","m","a"," ","L","o","g","s","'",")"," ","|"," ","s","t","a","t","s"," ","c","o","u","n","t"," ","b","y"," ","A","c","t","i","o","n"," ","|"," ","h","e","a","d"," ","1","0">>,
     timestats |-> <<"*"," ","|"," ","t","i","m","e","s","t","a","t","s"," ","c","o","u","n","t"," ","b","y"," ","'","L","o","g"," ","S","o","u","r","c","e","'"," ","s","p","a","n","=","1","h">>]

\* QueryValidator._suggest_alternative on a str
SuggestAlternative(query) ==
    Bind(Lower(query), LAMBDA lowered :
        IF Contains(lowered, <<"t","i","m","e","s","t","a","t","s">>) THEN working_patterns.timestats
        ELSE IF \/ Contains(query, <<"V","C","N">>) \/ Contains(query, <<"F","l","o","w">>)
                \/ Contains(lowered, <<"n","e","t","w","o","r","k">>)
        THEN working_patterns.vcn_flow_logs
        ELSE IF Contains(lowered, <<"a","u","d","i","t">>) \/ Contains(lowered, <<"e","v","e","n","t">>)
        THEN working_patterns.audit_logs
        ELSE IF Contains(lowered, <<"s","t","a","t","s">>) THEN working_patterns.simple_stats
        ELSE working_patterns.basic_search)

\* a value of validate_and_fix_query's untyped argument: the name of its type and its
\* text (the str itself, the content of a bytes, the only element of a list, the digits
\* of an int, nothing for None)
PyValue(type, text) == [type |-> type, text |-> text]

\* the class of the exception "pattern in query" raises (line 116), or "none"
PatternInQueryRaises(query) ==
    IF query.type \in {"NoneType", "int", "bytes"} THEN "TypeError" ELSE "none"

\* _should_preserve_query where "pattern in query" does not raise: substring of a str,
\* element of a list
ShouldPreserveValue(query) ==
    IF query.type = "str" THEN ShouldPreserveQuery(query.text)
    ELSE \E i \in DOMAIN preserve_patterns : preserve_patterns[i] = query.text

\* the class of the exception query.replace("!= null", "is not null") raises (line 121),
\* or "none"
ReplaceRaises(query) ==
    IF query.type = "str" THEN "none"
    ELSE IF query.type = "bytes" THEN "TypeError"
    ELSE "AttributeError"

\* the class of the exception the try block of validate_and_fix_query raises, or "none"
TryBlockRaises(query) ==
    IF PatternInQueryRaises(query) # "none" THEN PatternInQueryRaises(query)
    ELSE IF ShouldPreserveValue(query) THEN "none"
    ELSE ReplaceRaises(query)

\* the class of the exception _suggest_alternative raises, or "none": query.lower()
\* (line 266) on a value without that method, "timestats" in query.lower() on a bytes
SuggestAlternativeRaises(query) ==
    IF query.type = "str" THEN "none"
    ELSE IF query.type = "bytes" THEN "TypeError"
    ELSE "AttributeError"

\* QueryValidator.validate_and_fix_query on any value: what it returns, or the class of
\* the exception that leaves it
ValidateAndFixQueryOutcome(query) ==
    Bind(TryBlockRaises(query), LAMBDA raised :
        IF raised = "none"
        THEN [raised |-> "none",
              returned |->
                  IF query.type = "str" THEN ValidateAndFixQuery(query.text)
                  ELSE [success |-> TRUE,
                        original_query |-> query,
                        fixed_query |-> query,
                        validation_result |->
                            [is_valid |-> TRUE,
                             warnings |-> <<"Query preserved as-is due to complexity">>],
                        warnings |-> <<"Query preserved as-is due to complexity">>]]
        ELSE IF SuggestAlternativeRaises(query) # "none"
        THEN [raised |-> SuggestAlternativeRaises(query), returned |-> None]
        ELSE [raised |-> "none",
              returned |-> [success |-> FALSE,
                            error |-> raised,
                            original_query |-> query.text,
                            suggested_alternative |-> SuggestAlternative(query.text)]])

(***************************************************************************)
(* The shared client (fastmcp_server._get_client, _build_client)           *)
(***************************************************************************)

\* the compartment_id and region overrides a caller may pass ("" when it passes none)
CompartmentOverrides == {"", "ocid1.compartment.oc1..other"}

RegionOverrides == {"", "eu-frankfurt-1"}

\* x or y
Or(x, y) == IF x # "" THEN x ELSE y

\* LoganClient(compartment_id=compartment): the region is read from the environment when
\* the client is constructed
LoganClient(compartment) ==
    [compartment_id |-> Or(compartment, default_compartment),
     region |-> Or(environ.LOGAN_REGION, default_region)]

\* _get_client up to its await: a call with no override takes the shared client when there
\* is one; otherwise _build_client is handed to a thread
GetClient(c) ==
    /\ calls[c].pc = "new"
    /\ \E compartment_id \in CompartmentOverrides, region \in RegionOverrides :
          LET call == [calls[c] EXCEPT !.compartment_id = compartment_id, !.region = region] IN
          IF _client = None \/ compartment_id # "" \/ region # ""
          THEN calls' = [calls EXCEPT ![c] = [call EXCEPT !.pc = "building"]]
          ELSE calls' = [calls EXCEPT ![c] = [call EXCEPT !.pc = "running", !.client = _client]]
    /\ UNCHANGED <<requestVars, rewriteVars, _client, environ>>

\* _build_client in its thread, up to the construction: a region override is written to
\* the process environment
BuildClientSetRegion(c) ==
    /\ calls[c].pc = "building"
    /\ environ' = IF calls[c].region # ""
                  THEN [environ EXCEPT !.LOGAN_REGION = calls[c].region]
                  ELSE environ
    /\ calls' = [calls EXCEPT ![c].pc = "constructing"]
    /\ UNCHANGED <<requestVars, rewriteVars, _client>>

\* _build_client in its thread: LoganClient(compartment_id=compartment)
BuildClientConstruct(c) ==
    /\ calls[c].pc = "constructing"
    /\ calls' = [calls EXCEPT ![c].pc = "built",
                              ![c].built = LoganClient(calls[c].compartment_id)]
    /\ UNCHANGED <<requestVars, rewriteVars, _client, environ>>

\* _get_client after its await: the built client becomes the shared one and is returned
GetClientResume(c) ==
    /\ calls[c].pc = "built"
    /\ _client' = calls[c].built
    /\ calls' = [calls EXCEPT ![c].pc = "running", ![c].client = calls[c].built]
    /\ UNCHANGED <<requestVars, rewriteVars, environ>>

ClientNext ==
    \/ \E c \in Calls : GetClient(c)
    \/ \E c \in Calls : BuildClientSetRegion(c)
    \/ \E c \in Calls : BuildClientConstruct(c)
    \/ \E c \in Calls : GetClientResume(c)

ClientSpec == Init /\ [][ClientNext]_vars

(***************************************************************************)
(* The rewrite functions applied on their own                              *)
(***************************************************************************)

\* fields and bare literals of comparisons
ComparisonFields == {<<"S","e","v","e","r","i","t","y">>, <<"S","t","a","t","u","s">>}

ComparisonLiterals == {<<"e","r","r","o","r">>, <<"T","1","5","7","4",".","0","0","2">>}

\* field != literal, field != null, field is not null
NullComparisons(field) ==
    {field \o <<" ","!","="," ">> \o literal : literal \in ComparisonLiterals}
        \cup {field \o <<" ","!","="," ","n","u","l","l">>, field \o <<" ","i","s"," ","n","o","t"," ","n","u","l","l">>}

\* the counts and fields of top stages
TopCounts == {<<"1","0">>, <<"7">>}

TopFields == {<<"C","o","u","n","t">>, <<"S","e","v","e","r","i","t","y">>}

\* * | top N field
TopQuery(count, field) == <<"*"," ","|"," ","t","o","p"," ">> \o count \o <<" ">> \o field

\* queries with several stages of one kind, with stats and sort stages in either order
\* and with stages after them
StagedQueries ==
    { <<"*"," ","|"," ","r","e","n","a","m","e"," ","S","e","v","e","r","i","t","y"," ","a","s"," ","L","e","v","e","l"," ","|"," ","r","e","n","a","m","e"," ","S","t","a","t","u","s"," ","a","s"," ","C","o","d","e"," ","|"," ","h","e","a","d"," ","1","0">>,
      <<"*"," ","|"," ","s","e","a","r","c","h"," ","e","r","r","o","r"," ","|"," ","s","e","a","r","c","h"," ","w","a","r","n","i","n","g">>,
      <<"*"," ","|"," ","l","o","o","k","u","p"," ","t","a","b","l","e","=","H","o","s","t","s"," ","|"," ","l","o","o","k","u","p"," ","t","a","b","l","e","=","U","s","e","r","s">>,
      <<"*"," ","|"," ","t","o","p"," ","5"," ","C","o","u","n","t"," ","|"," ","t","o","p"," ","1","0"," ","C","o","u","n","t">>,
      <<"*"," ","|"," ","s","t","a","t","s"," ","c","o","u","n","t","(","*",")">>,
      <<"*"," ","|"," ","s","t","a","t","s"," ","c","o","u","n","t">>,
      <<"*"," ","|"," ","s","t","a","t","s"," ","c","o","u","n","t"," ","b","y"," ","S","e","v","e","r","i","t","y">>,
      <<"*"," ","|"," ","s","t","a","t","s"," ","c","o","u","n","t"," ","b","y"," ","S","e","v","e","r","i","t","y"," ","|"," ","s","o","r","t"," ","-","C","o","u","n","t">>,
      <<"*"," ","|"," ","s","t","a","t","s"," ","c","o","u","n","t"," ","b","y"," ","S","e","v","e","r","i","t","y"," ","|"," ","s","o","r","t"," ","-","C","o","u","n","t"," ","|"," ","h","e","a","d"," ","1","0">>,
      <<"*"," ","|"," ","s","o","r","t"," ","-","T","i","m","e"," ","|"," ","s","t","a","t","s"," ","c","o","u","n","t"," ","b","y"," ","S","e","v","e","r","i","t","y">>,
      <<"*"," ","|"," ","s","o","r","t"," ","-","T","i","m","e"," ","|"," ","h","e","a","d"," ","5">>,
      <<"S","e","v","e","r","i","t","y"," ","="," ","'","e","r","r","o","r","'"," ","|"," ","s","t","a","t","s"," ","c","o","u","n","t","(","*",")"," ","|"," ","s","o","r","t"," ","-","C","o","u","n","t"," ","|"," ","h","e","a","d"," ","1","0">> }

\* leading filters of queries with a count stage: no source named, the VCN Flow source,
\* the WAF source, the Suricata source
CountHeads ==
    { <<"*">>,
      <<"'","L","o","g"," ","S","o","u","r","c","e","'"," ","="," ","'","O","C","I"," ","V","C","N"," ","F","l","o","w"," ","U","n","i","f","i","e","d"," ","S","c","h","e","m","a"," ","L","o","g","s","'">>,
      <<"'","L","o","g"," ","S","o","u","r","c","e","'"," ","="," ","'","O","C","I"," ","W","A","F"," ","L","o","g","s","'">>,
      <<"'","L","o","g"," ","S","o","u","r","c","e","'"," ","="," ","'","S","u","r","i","c","a","t","a","'">> }

\* arguments of count: a bare field, a quoted field
CountFields == {<<"S","e","v","e","r","i","t","y">>, <<"'","A","c","t","i","o","n","'">>}

\* head | stats count(field)
CountQuery(head, field) == head \o <<" ","|"," ","s","t","a","t","s"," ","c","o","u","n","t","(">> \o field \o <<")">>

\* the query arguments the rewrite functions are applied to
RewriteQueries ==
    StagedQueries
        \cup {CountQuery(head, field) : head \in CountHeads, field \in CountFields}
        \cup {CountQuery(head, <<"*">>) : head \in CountHeads}
        \cup UNION {NullComparisons(field) : field \in ComparisonFields}
        \cup {TopQuery(count, field) : count \in TopCounts, field \in TopFields}

\* the minute counts at the unit thresholds; the tools accept 1 to 43200
RewriteMinutes == {59, 60, 1439, 1440, 1500, 43199, 43200}

\* values of other types than str passed as the query argument
UntypedQueries ==
    { PyValue("NoneType", <<>>),
      PyValue("int", <<"7">>),
      PyValue("bytes", <<"*"," ","|"," ","h","e","a","d"," ","1","0">>),
      PyValue("list", <<"*"," ","|"," ","h","e","a","d"," ","1","0">>),
      PyValue("list", <<"r","e","n","a","m","e">>) }

\* leading filters of the pipelines the validator is applied to
PipedHeads ==
    { <<"*">>,
      <<"h","o","s","t"," ","="," ","'">> \o <<DottedCapitalI>> \o <<"s","t","a","n","b","u","l","'">>,
      <<"'","L","o","g"," ","S","o","u","r","c","e","'"," ","="," ","'","O","C","I"," ","W","A","F"," ","L","o","g","s","'">> }

\* the stages the validator removes, and one it keeps
PipedStages ==
    { <<"r","e","n","a","m","e"," ","S","e","v","e","r","i","t","y"," ","a","s"," ","L","e","v","e","l">>,
      <<"s","e","a","r","c","h"," ","e","r","r","o","r">>,
      <<"l","o","o","k","u","p"," ","H","o","s","t","s">>,
      <<"h","e","a","d"," ","1","0">> }

\* a leading filter followed by one stage or by two
PipedQueries ==
    {head \o <<" ","|"," ">> \o first : head \in PipedHeads, first \in PipedStages}
        \cup {head \o <<" ","|"," ">> \o first \o <<" ","|"," ">> \o second :
                  head \in PipedHeads, first \in PipedStages, second \in PipedStages}

\* the query arguments validate_and_fix_query is applied to
ValidatorQueries ==
    {PyValue("str", query) : query \in RewriteQueries \cup PipedQueries} \cup UntypedQueries

\* minute counts around the unit thresholds and around the first multiples of the units
WindowMinutes == (1..125) \cup (1435..1445) \cup (2875..2885) \cup (43190..43200)

\* the query the injector is applied to at every minute count of WindowMinutes
WindowQuery == <<"S","t","a","t","u","s"," ","!","="," ","n","u","l","l">>

\* rule(query) was called, with minutes where the rule takes them, and returned output
Called(rule, query, minutes, output) ==
    /\ rewrite_rule' = rule
    /\ rewrite_input' = query
    /\ rewrite_minutes' = minutes
    /\ rewrite_output' = output
    /\ rewrite_exception' = "none"
    /\ UNCHANGED <<requestVars, clientVars>>

\* LoganClient._fix_query_syntax(query)
CallFixQuerySyntax ==
    /\ rewrite_rule = "none"
    /\ \E query \in RewriteQueries : Called("_fix_query_syntax", query, 0, FixQuerySyntax(query))

\* QueryValidator._fix_basic_syntax(query)
CallFixBasicSyntax ==
    /\ rewrite_rule = "none"
    /\ \E query \in RewriteQueries \cup PipedQueries :
           Called("_fix_basic_syntax", query, 0, FixBasicSyntax(query))

\* LoganClient._add_time_filter_with_field(query, time_period_minutes, 'dateRelative')
CallAddTimeFilterWithField ==
    /\ rewrite_rule = "none"
    /\ \E input \in ((RewriteQueries \cup PipedQueries) \X RewriteMinutes)
                          \cup ({WindowQuery} \X WindowMinutes) :
           Called("_add_time_filter_with_field", input[1], input[2],
                  AddTimeFilterWithField(input[1], input[2]))

\* QueryMapper._get_time_filter(time_period_minutes)
CallGetTimeFilter ==
    /\ rewrite_rule = "none"
    /\ \E minutes \in RewriteMinutes \cup WindowMinutes :
           Called("_get_time_filter", <<>>, minutes, GetTimeFilter(minutes))

\* LoganClient._convert_minutes_to_time_unit(time_period_minutes)
CallConvertMinutesToTimeUnit ==
    /\ rewrite_rule = "none"
    /\ \E minutes \in RewriteMinutes \cup WindowMinutes :
           Called("_convert_minutes_to_time_unit", <<>>, minutes,
                  ConvertMinutesToTimeUnit(minutes))

\* the query string _execute_query_fallback(original_query, max_count) submits
CallExecuteQueryFallback ==
    /\ rewrite_rule = "none"
    /\ \E query \in RewriteQueries :
           Called("_execute_query_fallback", query, 0, FallbackQuery(query))

\* console_query of execute_query_like_console(query)
CallExecuteQueryLikeConsole ==
    /\ rewrite_rule = "none"
    /\ \E query \in RewriteQueries :
           Called("execute_query_like_console", query, 0, ConsoleQuery(query))

\* rule(query) was called and an exception of class exception left it
Raised(rule, query, exception) ==
    /\ rewrite_rule' = rule
    /\ rewrite_input' = query
    /\ rewrite_minutes' = 0
    /\ rewrite_output' = None
    /\ rewrite_exception' = exception
    /\ UNCHANGED <<requestVars, clientVars>>

\* QueryValidator.validate_and_fix_query(query)
CallValidateAndFixQuery ==
    /\ rewrite_rule = "none"
    /\ \E query \in ValidatorQueries :
           \E outcome \in {ValidateAndFixQueryOutcome(query)} :
               IF outcome.raised = "none"
               THEN Called("validate_and_fix_query", query, 0, outcome.returned)
               ELSE Raised("validate_and_fix_query", query, outcome.raised)

\* the query execute_query submits first for the i-th query of
\* SecurityAnalyzer.run_security_check(check_type, time_period_minutes)
CallRunSecurityCheck ==
    /\ rewrite_rule = "none"
    /\ \E check_type \in DOMAIN security_queries, minutes \in RewriteMinutes :
           \E i \in DOMAIN security_queries[check_type] :
               \E query \in {GetSecurityQuery(check_type, minutes)[i]} :
                   Called("run_security_check", query, minutes,
                          ExecuteQuerySubmission(query, minutes).query_string)

RewriteNext ==
    \/ CallFixQuerySyntax
    \/ CallFixBasicSyntax
    \/ CallAddTimeFilterWithField
    \/ CallGetTimeFilter
    \/ CallExecuteQueryFallback
    \/ CallExecuteQueryLikeConsole
    \/ CallValidateAndFixQuery
    \/ CallRunSecurityCheck
    \/ CallConvertMinutesToTimeUnit

RewriteSpec == Init /\ [][RewriteNext]_vars

(***************************************************************************)
(* Properties                                                              *)
(***************************************************************************)

\* the request went through LoganClient.execute_query and reached the backend
ExecuteQueryRun == Len(submissions) > 0 /\ ~request_console_mode

\* the positions of the fallback submissions
FallbackSubmissions == {i \in DOMAIN submissions : submissions[i].path = "fallback"}

\* the backend rejected submission i with a ServiceError
Rejected(i) == i \in DOMAIN answers /\ answers[i].kind = "service_error"

\* the client method returned a result object
ClientReturned == pc = "done" /\ execResult # None

\* the number of clauses of the form the injector writes (time_filter, line 413)
TimeClauseCount(query) == CountOcc(query, <<"T","i","m","e"," ",">"," ","d","a","t","e","R","e","l","a","t","i","v","e","(">>)

C2_PreservedQueryUnmodified ==
    (surface = "execute_logan_query" /\ ShouldPreserveQuery(request_query)) =>
        /\ ValidateAndFixQuery(request_query).success
        /\ ValidateAndFixQuery(request_query).fixed_query = request_query
        /\ ValidateAndFixQuery(request_query).original_query = request_query
        /\ Len(submissions) > 0 => (client_query = request_query /\ ~was_normalized)

\* C2: a query with a preservation marker that the normalization steps would have
\* rewritten has been through the validator
C2_Witness ==
    /\ surface = "execute_logan_query"
    /\ Len(submissions) > 0
    /\ ShouldPreserveQuery(request_query)
    /\ NormalizeQuery(request_query) # request_query
    /\ client_query = request_query

\* C3, as stated: in the non-console pipeline of execute_logan_query, every query
\* string submitted to the backend (primary and fallback) for a query classified as
\* preserve is identical to the caller's original query
C3_PreservedQuerySubmittedVerbatim ==
    (surface = "execute_logan_query" /\ ~request_console_mode
        /\ ShouldPreserveQuery(request_query)) =>
        \A i \in DOMAIN submissions : submissions[i].query_string = request_query

\* C3: a preserved query reached the backend on the primary and on the fallback path
C3_Witness ==
    /\ surface = "execute_logan_query" /\ ~request_console_mode
    /\ ShouldPreserveQuery(request_query)
    /\ Len(submissions) = 2

\* C4, as stated: for a query that already contains a time clause, whatever the minute
\* count, the injection step of execute_query leaves the query unchanged, so the query
\* submitted on the primary path holds no second time clause
C4_NoSecondTimeClause ==
    (ExecuteQueryRun /\ TimeClauseCount(client_query) > 0) =>
        /\ submissions[1].query_string = FixQuerySyntax(client_query)
        /\ TimeClauseCount(submissions[1].query_string) = TimeClauseCount(client_query)

\* C4: a query holding a time clause went through execute_query
C4_Witness ==
    /\ ExecuteQueryRun
    /\ TimeClauseCount(client_query) > 0

\* the shape of a run of execute_query: one first submission, at most one fallback
\* after a primary one, every answer given to a submission already made, and either a
\* terminal outcome or a backend call still to be answered
TwoSubmissionsAtMost ==
    ExecuteQueryRun =>
        /\ Len(submissions) <= 2
        /\ submissions[1].path \in {"primary", "direct"}
        /\ Len(submissions) = 2 =>
              (submissions[1].path = "primary" /\ submissions[2].path = "fallback")
        /\ Len(answers) <= Len(submissions)
        /\ pc = "done" \/ (Len(answers) = Len(submissions) - 1 /\ ENABLED Next)

\* a backend answer ends the run, or takes it from primary to fallback; nothing leaves
\* the fallback but the end of the run
AnswerEndsOrFallsBack ==
    (ExecuteQueryRun /\ pc # pc') =>
        /\ Len(answers') = Len(answers) + 1
        /\ \/ pc' = "done"
           \/ pc = "primary_wait" /\ pc' = "fallback_wait"

\* C5: every run of execute_query ends (success or failure) after at most two backend
\* submissions, one primary and at most one fallback, whatever the backend answers; the
\* fallback is never left for primary or for a further retry
C5_AtMostOneFallbackThenTerminal == []TwoSubmissionsAtMost /\ [][AnswerEndsOrFallsBack]_vars

\* C5: a run that ended after its second submission was rejected as well
C5_Witness ==
    /\ ExecuteQueryRun /\ pc = "done"
    /\ Len(submissions) = 2
    /\ Rejected(1) /\ Rejected(2)

C7_FallbackFromOriginal ==
    \A i \in FallbackSubmissions :
        /\ submissions[i].query_string = FallbackStripSort(FixQuerySyntax(client_query))
        /\ TimeClauseCount(submissions[i].query_string) <= TimeClauseCount(client_query)
        /\ Contains(submissions[i].query_string, TimeFilterClause(request_minutes))
              => Contains(client_query, TimeFilterClause(request_minutes))

\* C7: a fallback was submitted after a primary query that carried an injected clause
C7_Witness ==
    /\ ExecuteQueryRun
    /\ Len(submissions) = 2
    /\ TimeClauseCount(submissions[1].query_string) > TimeClauseCount(client_query)
    /\ submissions[2].query_string # FixQuerySyntax(client_query)

\* the backend execution behind a finished request failed: the backend's last answer was
\* no well-formed data
BackendFailed ==
    /\ pc = "done" /\ Len(answers) > 0
    /\ \/ answers[Len(answers)].kind # "data"
       \/ "response_data" \in DOMAIN answers[Len(answers)]
             /\ ~answers[Len(answers)].response_data.well_formed

\* C8, as stated: no exception escapes the pipeline: whatever the backend answers on the
\* primary or the fallback submission (data, ServiceError, any other exception), and when
\* the client cannot be obtained, execute_query and the execute_logan_query tool return a
\* result object, which carries success = false and an error message when the run failed
C8_NoExceptionEscapes ==
    (surface = "execute_logan_query" /\ ~request_console_mode /\ pc = "done") =>
        /\ toolException = "none"
        /\ toolResult # None
        /\ Len(submissions) > 0 => (execException = "none" /\ execResult # None)
        /\ (Len(submissions) = 0 \/ BackendFailed) =>
              /\ ~Get(toolResult, "success", TRUE)
              /\ DOMAIN toolResult \cap {"error", "message"} # {}

\* C8: a run in which the backend raised an exception that is no ServiceError ended
C8_Witness ==
    /\ surface = "execute_logan_query" /\ ~request_console_mode /\ pc = "done"
    /\ Len(answers) > 0
    /\ answers[Len(answers)].kind = "exception"

\* C9, as stated: when the backend execution behind search_logs fails (the client method
\* returns success = false or raises), the tool result carries success = false and an
\* error message, never success = true with an empty result set
C9_SearchFailureReported ==
    (surface = "search_logs" /\ BackendFailed) =>
        /\ toolResult # None
        /\ ~Get(toolResult, "success", TRUE)
        /\ "error" \in DOMAIN toolResult

\* C9: a search whose backend execution failed ended
C9_Witness == surface = "search_logs" /\ BackendFailed /\ toolResult # None

\* the fallback submission was rejected as well
FallbackRejected == ExecuteQueryRun /\ Len(submissions) = 2 /\ Rejected(2)

PrimaryUnavailable ==
    ExecuteQueryRun /\ Len(answers) > 0 /\ answers[1].kind = "exception"

\* C11, as stated: when the primary submission fails with a connectivity, authentication
\* or timeout class error, execute_query makes no fallback submission and the failure is
\* its outcome (a result with success = false and the error) after exactly one backend call
C11_UnavailableSurfacedAsOutcome ==
    PrimaryUnavailable =>
        /\ Len(submissions) = 1
        /\ FallbackSubmissions = {}
        /\ ClientReturned
        /\ execException = "none"
        /\ execResult = ExceptionResult(answers[1].e)

\* C11: the primary submission of the time-filter branch failed with such an error
C11_Witness ==
    /\ PrimaryUnavailable
    /\ submissions[1].path = "primary"
    /\ pc = "done"

\* the request went through LoganClient.execute_query_like_console and reached the backend
ConsoleRun == Len(submissions) > 0 /\ request_console_mode

\* C12: console mode has no fallback tier: a call of execute_query_like_console makes at
\* most one backend submission; a response other than 200 or 201 and any exception are
\* returned directly as a result with success = false and the error; no console outcome
\* carries fallback_used
C12_ConsoleNoFallback ==
    ConsoleRun =>
        /\ Len(submissions) = 1
        /\ submissions[1].path = "console"
        /\ pc \in {"console_wait", "done"}
        /\ pc = "done" =>
              /\ Len(answers) = 1
              /\ execException = "none"
              /\ execResult # None
              /\ "fallback_used" \notin DOMAIN execResult
              /\ Get(execResult, "success", TRUE) = (answers[1].kind = "data")
              /\ answers[1].kind # "data" => "error" \in DOMAIN execResult

\* C12: a console-mode call whose backend request failed has returned
C12_Witness ==
    /\ ConsoleRun /\ pc = "done"
    /\ answers[1].kind \in {"http_error", "service_error", "exception"}
    /\ ~execResult.success

\* C13, as stated: in console mode, also when it is reached through execute_logan_query
\* with console_mode (and bypass_all_processing) set, the submitted query string is the
\* caller's query with the null-comparison canonicalization applied and nothing else: no
\* other rewrite, no reference mapping, no relative time clause; the time window travels
\* as a start/end pair
C13_ConsoleQueryOnlyCanonicalized ==
    ConsoleRun =>
        /\ submissions[1].query_string = ConsoleQuery(request_query)
        /\ TimeClauseCount(submissions[1].query_string) = TimeClauseCount(request_query)
        /\ submissions[1].time_filter = ConsoleTimeFilter(request_minutes)

\* C13: a console-mode call made through execute_logan_query with bypass_all_processing
\* set has submitted its query
C13_Witness ==
    /\ ConsoleRun
    /\ surface = "execute_logan_query"
    /\ request_bypass
    /\ ~ShouldPreserveQuery(request_query)

\* the client a call's own parameters and the startup configuration determine
OwnClient(call) ==
    [compartment_id |-> Or(call.compartment_id, default_compartment),
     region |-> Or(call.region, default_region)]

\* C14, as stated: under any interleaving of execute_logan_query calls, the client a call
\* executes against is determined by its own compartment_id and region arguments and the
\* startup configuration; a call without overrides runs against the default client,
\* whatever overrides other calls pass
C14_ClientFromOwnParameters ==
    \A c \in Calls : calls[c].pc = "running" => calls[c].client = OwnClient(calls[c])

\* C14: a call without overrides holds its client after another call that passed an
\* override has installed its own
C14_Witness ==
    \E c, d \in Calls :
        /\ c # d
        /\ calls[c].pc = "running" /\ calls[c].compartment_id = "" /\ calls[c].region = ""
        /\ calls[d].pc = "running" /\ (calls[d].compartment_id # "" \/ calls[d].region # "")

\* _add_time_filter_with_field was applied to a query it adds its clause to
InjectorAddedClause ==
    rewrite_rule = "_add_time_filter_with_field" /\ ~ShouldSkipTimeFilter(rewrite_input)

\* the units the injector selects below 43200 minutes
UnitBelowMonth(minutes) ==
    CASE minutes = 59 -> <<"5","9","m">>
      [] minutes = 60 -> <<"1","h">>
      [] minutes = 1439 -> <<"2","3","h">>
      [] minutes = 1440 -> <<"1","d">>
      [] minutes = 1500 -> <<"1","d">>
      [] minutes = 43199 -> <<"2","9","d">>

\* the clause added to the query is the one of this unit
AddedClauseHasUnit(unit) ==
    Contains(rewrite_output, <<"T","i","m","e"," ",">"," ","d","a","t","e","R","e","l","a","t","i","v","e","(">> \o unit \o <<")">>)

C16_NormalizerIdempotent ==
    /\ rewrite_rule = "_fix_basic_syntax" => FixBasicSyntax(rewrite_output) = rewrite_output
    /\ rewrite_rule = "_fix_query_syntax" => FixQuerySyntax(rewrite_output) = rewrite_output

\* C16: _fix_basic_syntax was applied to a query with two rename stages
C16_Witness ==
    /\ rewrite_rule = "_fix_basic_syntax"
    /\ CountOcc(rewrite_input, <<"|"," ","r","e","n","a","m","e"," ">>) = 2
    /\ rewrite_output # rewrite_input

\* _add_time_filter_with_field was applied to a query that starts with the stats
\* shorthand, has no time filter and no skip marker
InjectorOnStatsShorthand ==
    /\ InjectorAddedClause
    /\ StartsWith(rewrite_input, <<"*"," ","|"," ","s","t","a","t","s">>)
    /\ ~HasTimeFilter(rewrite_input)

\* C17, as stated: for a query that starts with "* | stats" the injector inserts its
\* clause as a new where stage right after the wildcard, "* | where <clause> | stats ...",
\* with the stats stage and all later stages unchanged; "* | stats count(*)" with 60
\* minutes, syntax-fixed to "* | stats count", becomes "* | where <clause> | stats count"
C17_WhereStageAfterWildcard ==
    InjectorOnStatsShorthand =>
        rewrite_output = <<"*"," ","|"," ","w","h","e","r","e"," ">> \o TimeFilterClause(rewrite_minutes)
                             \o <<" ","|"," ">> \o Suffix(rewrite_input, 4)

\* C17: the injector was applied to "* | stats count" with 60 minutes
C17_Witness ==
    /\ InjectorOnStatsShorthand
    /\ rewrite_input = FixQuerySyntax(<<"*"," ","|"," ","s","t","a","t","s"," ","c","o","u","n","t","(","*",")">>)
    /\ rewrite_minutes = 60
    /\ rewrite_output # rewrite_input

\* query with its first sort stage cut out: the stages before it and the stages after it
\* kept as they are and in order
SortStageRemoved(query) ==
    LET sort_pos == PyFind(query, <<"|"," ","s","o","r","t">>)
        next_pipe == FindFrom(query, <<"|">>, sort_pos + 1)
    IN  IF next_pipe < 0 THEN Strip(Prefix(query, sort_pos))
        ELSE Prefix(query, sort_pos) \o Suffix(query, next_pipe)

\* C18, as stated: when the re-normalized original query has both a stats stage and a
\* sort stage, the fallback submits that query with only the sort stage removed, every
\* stage before and after it unchanged and in order; when either kind of stage is absent
\* nothing is stripped
C18_OnlySortStageRemoved ==
    rewrite_rule = "_execute_query_fallback" =>
        LET query == FixQuerySyntax(rewrite_input) IN
        rewrite_output = IF Contains(query, <<"|"," ","s","t","a","t","s">>) /\ Contains(query, <<"|"," ","s","o","r","t">>)
                         THEN SortStageRemoved(query)
                         ELSE query

\* C18: the fallback query was computed for a query with a stats stage, a sort stage and
\* a stage after the sort stage
C18_Witness ==
    /\ rewrite_rule = "_execute_query_fallback"
    /\ rewrite_input = <<"*"," ","|"," ","s","t","a","t","s"," ","c","o","u","n","t"," ","b","y"," ","S","e","v","e","r","i","t","y"," ","|"," ","s","o","r","t"," ","-","C","o","u","n","t"," ","|"," ","h","e","a","d"," ","1","0">>
    /\ rewrite_output # rewrite_input

\* C19, as stated: on the normal execution path the null-comparison rule rewrites, for
\* every field and every bare literal, "field != literal", "field != null" and
\* "field is not null" to the same comparison of that field against a quoted empty string
C19_NullComparisonCanonical ==
    rewrite_rule = "_fix_query_syntax" =>
        \A field \in ComparisonFields :
            rewrite_input \in NullComparisons(field) =>
                rewrite_output = field \o <<" ","!","="," ","\"","\"">>

\* C19: _fix_query_syntax was applied to a comparison of a field with a bare literal
C19_Witness ==
    /\ rewrite_rule = "_fix_query_syntax"
    /\ \E field \in ComparisonFields, literal \in ComparisonLiterals :
          rewrite_input = field \o <<" ","!","="," ">> \o literal

\* C20, as stated: for every count N and every field, a stage "top N field" is replaced
\* by the two stages "sort -field | head N" and nothing else changes, in both
\* implementations of the syntax normalizer; "* | top 10 Count" becomes
\* "* | sort -Count | head 10"
C20_TopBecomesSortHead ==
    rewrite_rule \in {"_fix_basic_syntax", "_fix_query_syntax"} =>
        \A count \in TopCounts, field \in TopFields :
            rewrite_input = TopQuery(count, field) =>
                rewrite_output = <<"*"," ","|"," ","s","o","r","t"," ","-">> \o field \o <<" ","|"," ","h","e","a","d"," ">> \o count

\* C20: a syntax normalizer was applied to a top stage on a field other than Count
C20_Witness ==
    /\ rewrite_rule \in {"_fix_basic_syntax", "_fix_query_syntax"}
    /\ rewrite_input = TopQuery(<<"1","0">>, <<"S","e","v","e","r","i","t","y">>)

\* the alternative the contract names for an input: the timestats example for
\* time-series-shaped input, the source-filtered example for network-shaped input,
\* otherwise "* | head 10"
ContractAlternative(query) ==
    IF Contains(Lower(query), <<"t","i","m","e","s","t","a","t","s">>) THEN working_patterns.timestats
    ELSE IF \/ Contains(query, <<"V","C","N">>) \/ Contains(query, <<"F","l","o","w">>)
            \/ Contains(Lower(query), <<"n","e","t","w","o","r","k">>)
    THEN working_patterns.vcn_flow_logs
    ELSE working_patterns.basic_search

\* C21, as stated: validate_and_fix_query never propagates an exception: for every
\* input, inputs of unexpected type included, it returns a result object, and whenever a
\* normalization step raised, the result has success=false, the error text, the original
\* input and the suggested alternative the contract names
C21_ValidatorNeverRaises ==
    rewrite_rule = "validate_and_fix_query" =>
        /\ rewrite_exception = "none"
        /\ TryBlockRaises(rewrite_input) # "none" =>
              /\ rewrite_output.success = FALSE
              /\ rewrite_output.error = TryBlockRaises(rewrite_input)
              /\ rewrite_output.original_query = rewrite_input.text
              /\ rewrite_output.suggested_alternative = ContractAlternative(rewrite_input.text)

\* C21: validate_and_fix_query was applied to None, and its first step raised
C21_Witness ==
    /\ rewrite_rule = "validate_and_fix_query"
    /\ rewrite_input = PyValue("NoneType", <<>>)
    /\ TryBlockRaises(rewrite_input) = "TypeError"

\* the last backend submission of the run
LastSubmission == submissions[Len(submissions)]

StageBounds(query) == {0, Len(query) + 1} \cup {i \in 1..Len(query) : query[i] = "|"}

\* every pipe-delimited stage of the query holds a character that is no white space: the
\* query is not empty and has no leading pipe, no trailing pipe and no two adjacent pipes
AllStagesNonEmpty(query) ==
    \A a \in StageBounds(query), b \in StageBounds(query) :
        (a < b /\ \A c \in StageBounds(query) : ~(a < c /\ c < b)) =>
            \E j \in (a + 1)..(b - 1) : ~IsSpace(query[j])

\* C23, as stated: for every input query whose pipe-delimited stages are all non-empty,
\* the fixed_query returned by validate_and_fix_query is non-empty and has no empty
\* stage, no leading pipe, no trailing pipe and no two adjacent pipes, whichever
\* combination of rename, search and lookup removals applied
C23_FixedQueryWellFormed ==
    (/\ rewrite_rule = "validate_and_fix_query"
     /\ rewrite_exception = "none"
     /\ rewrite_input.type = "str"
     /\ AllStagesNonEmpty(rewrite_input.text)) =>
        /\ rewrite_output.fixed_query # <<>>
        /\ AllStagesNonEmpty(rewrite_output.fixed_query)

\* C23: the validator removed a search stage from a query whose leading filter holds a
\* letter that lower() renders as two characters
C23_Witness ==
    /\ rewrite_rule = "validate_and_fix_query"
    /\ rewrite_input.type = "str"
    /\ AllStagesNonEmpty(rewrite_input.text)
    /\ Contains(rewrite_input.text, <<DottedCapitalI>>)
    /\ Contains(rewrite_input.text, <<"|"," ","s","e","a","r","c","h"," ">>)
    /\ ~Contains(rewrite_output.fixed_query, <<"|"," ","s","e","a","r","c","h"," ">>)

\* the query holds a guard marker or names the one source family of the arity fix
HasCountGuard(query) ==
    \/ Contains(query, <<"W","A","F">>) \/ Contains(query, <<"S","u","r","i","c","a","t","a">>)
    \/ Contains(query, <<"O","C","I"," ","V","C","N"," ","F","l","o","w">>)

\* C24, as stated: the syntax normalizer always rewrites "stats count(*)" to
\* "stats count"; it rewrites "stats count(field)" to "stats count" when the guard
\* markers or the one named source family are present in the query, and leaves it
\* unchanged for every query that references no such marker or source
C24_CountFieldFlattenedUnderGuard ==
    rewrite_rule = "_fix_query_syntax" =>
        \A head \in CountHeads :
            /\ rewrite_input = CountQuery(head, <<"*">>) =>
                  rewrite_output = head \o <<" ","|"," ","s","t","a","t","s"," ","c","o","u","n","t">>
            /\ \A field \in CountFields :
                  rewrite_input = CountQuery(head, field) =>
                      rewrite_output = IF HasCountGuard(rewrite_input)
                                       THEN head \o <<" ","|"," ","s","t","a","t","s"," ","c","o","u","n","t">>
                                       ELSE rewrite_input

\* C24: _fix_query_syntax was applied to a count of a field in a query that holds no
\* marker and names no source
C24_Witness ==
    /\ rewrite_rule = "_fix_query_syntax"
    /\ rewrite_input = CountQuery(<<"*">>, <<"S","e","v","e","r","i","t","y">>)
    /\ ~HasCountGuard(rewrite_input)

\* the k-th of the positions that delimit the stages of a query, from the left
StageBound(query, k) ==
    CHOOSE b \in StageBounds(query) : Cardinality({c \in StageBounds(query) : c < b}) = k - 1

\* the pipe-delimited stages of a query, in order, each without surrounding white space
StageList(query) ==
    [k \in 1..(Cardinality(StageBounds(query)) - 1) |->
        Strip(SubSeq(query, StageBound(query, k) + 1, StageBound(query, k + 1) - 1))]

IsRenameStage(stage) == StartsWith(stage, <<"r","e","n","a","m","e"," ">>)

IsOtherStage(stage) == ~IsRenameStage(stage)

\* C25, as stated: applying _fix_basic_syntax to a query with one or more rename stages
\* (and no search stage, which another rule removes) yields a query with no rename
\* stage in which every other stage is kept, in the original order; a rename stage in
\* last position is removed without leaving a trailing pipe
C25_RenameStagesRemoved ==
    (/\ rewrite_rule = "_fix_basic_syntax"
     /\ Contains(rewrite_input, <<"|"," ","r","e","n","a","m","e"," ">>)
     /\ ~Contains(rewrite_input, <<"|"," ","s","e","a","r","c","h"," ">>)) =>
        /\ ~Contains(rewrite_output, <<"|"," ","r","e","n","a","m","e"," ">>)
        /\ AllStagesNonEmpty(rewrite_output)
        /\ StageList(rewrite_output) = SelectSeq(StageList(rewrite_input), IsOtherStage)

\* C25: _fix_basic_syntax was applied to a query with two rename stages and returned a
\* query without the first of them
C25_Witness ==
    /\ rewrite_rule = "_fix_basic_syntax"
    /\ CountOcc(rewrite_input, <<"|"," ","r","e","n","a","m","e"," ">>) = 2
    /\ CountOcc(rewrite_output, <<"|"," ","r","e","n","a","m","e"," ">>) < 2

HasLookupStage(query) == Contains(query, <<"|"," ","l","o","o","k","u","p">>)

\* the query holds one of the markers that make a lookup stage load-bearing
HasLookupMarker(query) ==
    \/ Contains(query, <<"W","A","F">>) \/ Contains(query, <<"M","I","T","R","E">>) \/ Contains(query, <<"S","u","r","i","c","a","t","a">>)

\* C26, as stated: through the validator and then execute_query, for every query with a
\* lookup stage: if the query holds none of the load-bearing markers, no submitted query
\* has a lookup stage; if it holds one of them, the lookup stage is still present in the
\* validator's fixed_query and in every query submitted to the backend
C26_LookupKeptExactlyWithMarker ==
    (/\ surface = "execute_logan_query" /\ ~request_console_mode
     /\ Len(submissions) > 0
     /\ HasLookupStage(request_query)) =>
        IF HasLookupMarker(request_query)
        THEN /\ HasLookupStage(ValidateAndFixQuery(request_query).fixed_query)
             /\ \A i \in DOMAIN submissions : HasLookupStage(submissions[i].query_string)
        ELSE \A i \in DOMAIN submissions : ~HasLookupStage(submissions[i].query_string)

\* C26: a query with a lookup stage and the marker MITRE went through the validator
\* with its lookup stage and was submitted by execute_query
C26_Witness ==
    /\ surface = "execute_logan_query" /\ ~request_console_mode
    /\ Len(submissions) > 0
    /\ HasLookupStage(request_query)
    /\ Contains(request_query, <<"M","I","T","R","E">>)
    /\ HasLookupStage(client_query)

\* C27, as stated: for every predefined security check type, every query in its list
\* and every time period of at least 1 minute, the query built by get_security_query
\* starts with a timefilter(...) stage and is submitted by execute_query without an
\* added dateRelative clause: no query run by run_security_check carries two time
\* restrictions
C27_SecurityQueryNotFilteredTwice ==
    rewrite_rule = "run_security_check" =>
        /\ StartsWith(rewrite_input, GetTimeFilter(rewrite_minutes) \o <<" ","|"," ">>)
        /\ ~Contains(rewrite_output, <<"d","a","t","e","R","e","l","a","t","i","v","e","(">>)
        /\ CountOcc(rewrite_output, <<"t","i","m","e","f","i","l","t","e","r","(">>) = 1

\* C27: execute_query received a security query whose only stage after timefilter(...)
\* is a search stage
C27_Witness ==
    /\ rewrite_rule = "run_security_check"
    /\ StartsWith(rewrite_input, GetTimeFilter(rewrite_minutes) \o <<" ","|"," ","s","e","a","r","c","h"," ">>)
    /\ ~HasTimeFilter(rewrite_input)

\* the stages of a query after its first pipe
LaterStages(query) == Tail(StageList(query))

ValidatorSucceeded ==
    /\ rewrite_rule = "validate_and_fix_query"
    /\ rewrite_exception = "none"
    /\ rewrite_output.success

\* C29, as stated: in every successful result of validate_and_fix_query, on the
\* preserved path as well as on the normalized path, validation_result.is_valid is true
\* if and only if the warnings list is empty, and the top-level warnings list equals
\* validation_result.warnings
C29_ValidIffNoWarnings ==
    ValidatorSucceeded =>
        /\ rewrite_output.warnings = rewrite_output.validation_result.warnings
        /\ rewrite_output.validation_result.is_valid = (rewrite_output.warnings = <<>>)

\* C29, amended: in every successful result the top-level warnings list equals
\* validation_result.warnings; on the normalized path is_valid is true if and only if
\* the warnings list is empty; on the preserved path is_valid is true and the warnings
\* list holds the one notice that the query was preserved
C29_ValidIffNoWarningsUnlessPreserved ==
    ValidatorSucceeded =>
        /\ rewrite_output.warnings = rewrite_output.validation_result.warnings
        /\ IF ShouldPreserveValue(rewrite_input)
           THEN /\ rewrite_output.validation_result.is_valid
                /\ rewrite_output.warnings = <<"Query preserved as-is due to complexity">>
           ELSE rewrite_output.validation_result.is_valid = (rewrite_output.warnings = <<>>)

\* C29: the validator returned a preserved query
C29_Witness ==
    /\ ValidatorSucceeded
    /\ rewrite_input.type = "str"
    /\ ShouldPreserveQuery(rewrite_input.text)
    /\ rewrite_output.fixed_query = rewrite_input.text


\* the decimal digit a character stands for
DigitValue(c) == CHOOSE n \in 0..9 : DigitChars[n + 1] = c

RECURSIVE StrToInt(_)
\* the number a string of decimal digits stands for
StrToInt(digits) ==
    IF digits = <<>> THEN 0
    ELSE 10 * StrToInt(SubSeq(digits, 1, Len(digits) - 1)) + DigitValue(digits[Len(digits)])

\* the magnitude and the unit of the relative time written after opener in text
RenderedWindow(text, opener) ==
    LET start == PyFind(text, opener) + Len(opener)
        digits == DigitRun(text, start)
        rest == Suffix(text, start + digits)
        close == {i \in 1..Len(rest) : rest[i] = ")"}
    IN  [magnitude |-> SubSeq(text, start + 1, start + digits),
         unit |-> IF close = {} THEN rest ELSE Prefix(rest, Min(close) - 1)]

\* the relative time a rewrite function rendered: the injector's dateRelative(...), the
\* mapper's timefilter(...), the bare unit of _convert_minutes_to_time_unit
Rendered ==
    IF rewrite_rule = "_add_time_filter_with_field"
    THEN RenderedWindow(rewrite_output, <<"d","a","t","e","R","e","l","a","t","i","v","e","(">>)
    ELSE IF rewrite_rule = "_get_time_filter"
    THEN RenderedWindow(rewrite_output, <<"t","i","m","e","f","i","l","t","e","r","(">>)
    ELSE RenderedWindow(rewrite_output, <<>>)

\* the length in minutes of the units of a relative time
UnitMinutes == [m |-> 1, h |-> 60, d |-> 1440, mon |-> 43200]

\* the unit of a relative time as the name of its length
UnitName(unit) ==
    IF unit = <<"m">> THEN "m" ELSE IF unit = <<"h">> THEN "h" ELSE IF unit = <<"d">> THEN "d"
    ELSE IF unit = <<"m","o","n">> THEN "mon" ELSE "unknown"

\* a rewrite function rendered a relative time for a minute count of the accepted range
RenderedForRequest ==
    /\ rewrite_minutes \in 1..43200
    /\ \/ rewrite_rule \in {"_get_time_filter", "_convert_minutes_to_time_unit"}
       \/ /\ rewrite_rule = "_add_time_filter_with_field"
          /\ Contains(rewrite_output, <<"d","a","t","e","R","e","l","a","t","i","v","e","(">>)
          /\ ~Contains(rewrite_input, <<"d","a","t","e","R","e","l","a","t","i","v","e","(">>)

\* C30: for every minute count m of the accepted range 1..43200, the rendered relative
\* time has a positive integer magnitude k and a unit of u minutes (1, 60 or 1440, or
\* 43200 for months) such that k*u <= m < (k+1)*u: the window is never empty and never
\* longer than the requested one
C30_WindowWithinRequest ==
    RenderedForRequest =>
        /\ Rendered.magnitude # <<>>
        /\ UnitName(Rendered.unit) \in DOMAIN UnitMinutes
        /\ StrToInt(Rendered.magnitude) >= 1
        /\ StrToInt(Rendered.magnitude) * UnitMinutes[UnitName(Rendered.unit)] <= rewrite_minutes
        /\ rewrite_minutes
               < (StrToInt(Rendered.magnitude) + 1) * UnitMinutes[UnitName(Rendered.unit)]

\* C30: the injector rendered a window shorter than the requested one
C30_Witness ==
    /\ RenderedForRequest
    /\ rewrite_rule = "_add_time_filter_with_field"
    /\ StrToInt(Rendered.magnitude) * UnitMinutes[UnitName(Rendered.unit)] < rewrite_minutes
=============================================================================
